---------------------------- MODULE Spec2Model ----------------------------
(***************************************************************************)
(* FDT parsed machine (hw/core/fdt-mch*.c): the machine builder that walks *)
(* a flattened device tree, classifies every node, instantiates devices,   *)
(* records the node -> device mapping and then wires interrupts and GPIOs. *)
(*                                                                         *)
(* Strings the code inspects character by character (node names,           *)
(* compatible strings, device_type) are sequences of one-character         *)
(* strings.  Property names, which the code only uses as literal keys, are *)
(* TLA+ strings.  A device tree is a function from node offsets 0..N       *)
(* (numbered in the order fdt_next_node() visits them, 0 the root) to      *)
(* [parent, name, props], props a function from the names of the           *)
(* properties the node has to their values.                                *)
(***************************************************************************)
EXTENDS Integers, Sequences, FiniteSets, TLC

VARIABLES
    fdt,    \* the device tree blob (read-only input of the build)
    qom,    \* the device type names qdev_try_new() can instantiate
    s,      \* DynamicState, with the QEMU objects the build created
    pc,     \* position of the running operation
    cur,    \* cursor of the loop the operation is in
    ret     \* value returned by the last operation

vars == <<fdt, qom, s, pc, cur, ret>>

NULL == 0

(***************************************************************************)
(* Bounds of the model.                                                    *)
(***************************************************************************)
MaxCompat == 2
MaxRecords == 3
MaxMapNodes == 2
MaxMapDevs == 2
MaxSlots == 2
MaxIrqCells == 2
MaxFactor == 4
MaxEntries == 2
MaxJunk == 3
MaxNCells == 5

(***************************************************************************)
(* C string helpers.                                                       *)
(***************************************************************************)
Min(a, b) == IF a < b THEN a ELSE b
Max(a, b) == IF a > b THEN a ELSE b

Take(str, n) == SubSeq(str, 1, Min(n, Len(str)))

\* strncmp(a, b, n) == 0
strncmp_eq(a, b, n) == Take(a, n) = Take(b, n)

\* strstr(haystack, needle) != NULL
strstr(haystack, needle) ==
    \E i \in 1..(Len(haystack) - Len(needle) + 1) :
        SubSeq(haystack, i, i + Len(needle) - 1) = needle

\* strchr(str, c): index of the first c, 0 when there is none
strchr(str, c) ==
    IF \E i \in 1..Len(str) : str[i] = c
    THEN CHOOSE i \in 1..Len(str) :
            str[i] = c /\ \A j \in 1..(i - 1) : str[j] # c
    ELSE 0

strip_compat_string(s1) ==
    LET i == strchr(s1, ",")
    IN  IF i = 0 THEN s1 ELSE SubSeq(s1, i + 1, Len(s1))

subst_compat_string(s1, src, dst) ==
    [i \in 1..Len(s1) |-> IF s1[i] = src THEN dst ELSE s1[i]]

(***************************************************************************)
(* Names used in the trees and in the device type registry.                *)
(***************************************************************************)
N_pl050   == <<"p", "l", "0", "5", "0">>
N_pl050k  == <<"p", "l", "0", "5", "0", "k">>
N_pl08x   == <<"p", "l", "0", "8", "x">>
N_pl080   == <<"p", "l", "0", "8", "0">>
N_a_b     == <<"a", "-", "b">>
N_a__b    == <<"a", "_", "b">>
N_v_a_b   == <<"v", ",", "a", "-", "b">>
N_v_pl050 == <<"v", ",", "p", "l", "0", "5", "0">>
N_v_pl080 == <<"v", ",", "p", "l", "0", "8", "0">>
N_v_w_u   == <<"v", ",", "w", ",", "u">>
N_w_u     == <<"w", ",", "u">>
N_u       == <<"u">>
N_i2c     == <<"i", "2", "c">>
N_spi     == <<"s", "p", "i">>
N_pci     == <<"p", "c", "i">>
N_soc     == <<"s", "o", "c">>
N_pcie    == <<"p", "c", "i", "e">>
N_cpu     == <<"c", "p", "u">>
N_cpus    == <<"c", "p", "u", "s">>
N_memory  == <<"m", "e", "m", "o", "r", "y">>
N_v_i2c   == <<"v", ",", "i", "2", "c">>
N_v_spi   == <<"v", ",", "s", "p", "i">>
N_i2c_1   == <<"i", "2", "c", "@", "1">>
N_spi_1   == <<"s", "p", "i", "@", "1">>
N_clk     == <<"c", "l", "k">>
N_i2c_spi == <<"i", "2", "c", "-", "s", "p", "i">>
N_x       == <<"x">>
N_v_cpu   == <<"v", ",", "c", "p", "u">>
N_cpu_0   == <<"c", "p", "u", "@", "0">>
N_v_i2c_x == <<"v", ",", "i", "2", "c", "-", "x">>
N_u_1     == <<"u", "@", "1">>

(***************************************************************************)
(* libfdt accessors.                                                       *)
(***************************************************************************)
NodesOf(t) == DOMAIN t

HasProp(t, node, prop) == node \in NodesOf(t) /\ prop \in DOMAIN t[node].props

\* fdt_getprop(): the value, only read where HasProp holds
fdt_getprop(t, node, prop) == t[node].props[prop]

fdt_get_name(t, node) == t[node].name

\* libfdt error numbers (returned negated)
FDT_ERR_NOTFOUND == 1
FDT_ERR_BADPHANDLE == 6
FDT_ERR_BADNCELLS == 14
FDT_ERR_BADVALUE == 15

\* A cell is a uint32_t and the code's arithmetic on cells wraps around.
\* The model keeps the wrap-around with cells of 15 bits, so that a value
\* made of two cells fits the integers of the model checker.
Word == 32768
MaxWord == Word - 1

\* byte length of a property made of 32-bit cells
PropLen(t, node, prop) == 4 * Len(fdt_getprop(t, node, prop))

\* the first cell of a property
FirstCell(t, node, prop) == fdt_getprop(t, node, prop)[1]

fdt_parent_offset(t, node) ==
    IF t[node].parent < 0 THEN -FDT_ERR_NOTFOUND ELSE t[node].parent

\* the subnodes of a node, which fdt_for_each_subnode visits in offset order
Subnodes(t, node) == {c \in NodesOf(t) : t[c].parent = node}

\* fdt_first_subnode(fdt, node) > 0
has_subnodes(t, node) == Subnodes(t, node) # {}

\* the set as the sequence of its elements in increasing order
RECURSIVE SortedSeq(_)
SortedSeq(S) ==
    IF S = {} THEN <<>>
    ELSE LET m == CHOOSE x \in S : \A y \in S : x <= y
         IN  <<m>> \o SortedSeq(S \ {m})

\* a node name without its unit address ("name@addr")
BaseName(name) ==
    LET i == strchr(name, "@")
    IN  IF i = 0 THEN name ELSE SubSeq(name, 1, i - 1)

\* fdt_subnode_offset(fdt, parent, name): a name given without a unit
\* address also matches a subnode that has one
fdt_subnode_offset(t, parent, name) ==
    LET M == {c \in Subnodes(t, parent) :
                 t[c].name = name \/ BaseName(t[c].name) = name}
    IN  IF M = {} THEN -FDT_ERR_NOTFOUND
        ELSE CHOOSE c \in M : \A d \in M : c <= d

fdt_node_offset_by_phandle(t, phandle) ==
    LET M == {n \in NodesOf(t) :
                 HasProp(t, n, "phandle") /\ FirstCell(t, n, "phandle") = phandle}
    IN  IF phandle = 0 \/ phandle = MaxWord THEN -FDT_ERR_BADPHANDLE
        ELSE IF M = {} THEN -FDT_ERR_NOTFOUND
        ELSE CHOOSE n \in M : \A d \in M : n <= d

\* fdt_address_cells / fdt_size_cells: the property's value, 2 resp. 1
\* when the node has none, and an error for a value libfdt rejects
fdt_address_cells(t, node) ==
    IF ~HasProp(t, node, "#address-cells") THEN 2
    ELSE LET v == FirstCell(t, node, "#address-cells")
         IN  IF v = 0 \/ v > 4 THEN -FDT_ERR_BADNCELLS ELSE v

fdt_size_cells(t, node) ==
    IF ~HasProp(t, node, "#size-cells") THEN 1
    ELSE LET v == FirstCell(t, node, "#size-cells")
         IN  IF v > 4 THEN -FDT_ERR_BADNCELLS ELSE v

\* fdt_node_offset_by_prop(fdt, startoffset, propname): the next node after
\* startoffset that has the property, negative when there is none
fdt_node_offset_by_prop(t, startoffset, propname) ==
    LET M == {n \in NodesOf(t) : n > startoffset /\ HasProp(t, n, propname)}
    IN  IF M = {} THEN -FDT_ERR_NOTFOUND
        ELSE CHOOSE n \in M : \A d \in M : n <= d

\* the nodes fdt_for_each_node_with_prop(offset, fdt, -1, propname) visits
NodesWithProp(t, propname) ==
    SortedSeq({n \in NodesOf(t) : HasProp(t, n, propname)})

fdt_stringlist_count(t, node, prop) ==
    IF HasProp(t, node, prop) THEN Len(fdt_getprop(t, node, prop)) ELSE -1

fdt_stringlist_get(t, node, prop, i) == fdt_getprop(t, node, prop)[i + 1]

(***************************************************************************)
(* QEMU object model: s.qdev is the sequence of devices created so far, a  *)
(* DeviceState pointer is an index into it and NULL is 0.  s.tried logs    *)
(* the type names handed to qdev_try_new().                                *)
(***************************************************************************)
NewDevice(type, node) ==
    [type |-> type, node |-> node, downstream |-> FALSE, realized |-> FALSE,
     mmio |-> <<>>, clocks |-> <<>>, address |-> 0, bus |-> NULL]

\* qdev_try_new(name): a new device when the type is registered, else NULL
qdev_try_new(st, types, name, node) ==
    LET st1 == [st EXCEPT !.tried = Append(@, name)]
    IN  IF name \in types
        THEN [s |-> [st1 EXCEPT !.qdev = Append(@, NewDevice(name, node))],
              ret |-> Len(st.qdev) + 1]
        ELSE [s |-> st1, ret |-> NULL]

(***************************************************************************)
(* fdt-mch.h: the node <-> device mapping.  s.dev_map holds the FDTDevInfo *)
(* entries in the order they were inserted; QSLIST_INSERT_HEAD makes the   *)
(* newest entry the head, so the list is walked from the last entry of     *)
(* s.dev_map down to the first.  An FDTDevInfo pointer is the entry's      *)
(* index in s.dev_map and NULL is 0.                                       *)
(***************************************************************************)
NewInfo(dev, node_offset) ==
    [dev |-> dev, offset |-> node_offset, num_irqs |-> 0, irqs |-> 0]

mch_fdt_dev_add_mapping(st, dev, node_offset) ==
    [st EXCEPT !.dev_map = Append(@, NewInfo(dev, node_offset))]

\* a lookup that finds no entry
mch_fdt_dev_find_mapping_none(st, node) == NULL

mch_fdt_dev_find_mapping(st, node) ==
    LET M == {i \in 1..Len(st.dev_map) : st.dev_map[i].offset = node}
    IN  IF M = {} THEN NULL
        ELSE CHOOSE i \in M : \A j \in M : i >= j

(***************************************************************************)
(* fdt-mch-util.c: the cell codec.                                         *)
(***************************************************************************)
\* _fdt_read_cells over the n cells starting at cells[from] (1-based):
\* [rc, value], value only written when rc = 0
\* a read that keeps the last cell only
ReadCells_last_cell(cells, from, n, acc) ==
    IF n = 0 THEN acc ELSE cells[from + n - 1]

RECURSIVE ReadCells(_, _, _, _)
ReadCells(cells, from, n, acc) ==
    IF n = 0 THEN acc
    ELSE ReadCells(cells, from + 1, n - 1,
                   ((acc % Word) * Word) + cells[from])

fdt_read_cells(cells, from, n) ==
    IF n > 2
    THEN [rc |-> -FDT_ERR_BADNCELLS, value |-> 0, wrote |-> FALSE]
    ELSE [rc |-> 0, value |-> ReadCells(cells, from, n, 0), wrote |-> TRUE]

\* fdt_simple_addr_size(fdt, nodeoffset, idx, addrp, sizep): want_addr and
\* want_size say which of addrp and sizep are not NULL.  [rc, addr, size,
\* wrote_addr, wrote_size]: the outputs and whether each was written.
AddrSizeFail(rc) ==
    [rc |-> rc, addr |-> 0, size |-> 0,
     wrote_addr |-> FALSE, wrote_size |-> FALSE]

\* the read of the size, after the address part produced r1
SimpleAddrSizeSize(r1, z, want_size) ==
    IF ~want_size THEN r1
    ELSE IF z.rc < 0 THEN [r1 EXCEPT !.rc = z.rc]
    ELSE [r1 EXCEPT !.size = z.value, !.wrote_size = TRUE]

SimpleAddrSizeAddr(a, z, want_addr, want_size) ==
    IF ~want_addr THEN SimpleAddrSizeSize(AddrSizeFail(0), z, want_size)
    ELSE IF a.rc < 0 THEN AddrSizeFail(a.rc)
    ELSE SimpleAddrSizeSize(
             [AddrSizeFail(0) EXCEPT !.addr = a.value, !.wrote_addr = TRUE],
             z, want_size)

SimpleAddrSizeRead(reg, idx, want_addr, want_size, ac, sc) ==
    SimpleAddrSizeAddr(fdt_read_cells(reg, (ac + sc) * idx + 1, ac),
                       fdt_read_cells(reg, ac + (ac + sc) * idx + 1, sc),
                       want_addr, want_size)

SimpleAddrSizeCells(reg, res, idx, want_addr, want_size, ac, sc) ==
    IF ac < 0 THEN AddrSizeFail(ac)
    ELSE IF sc < 0 THEN AddrSizeFail(sc)
    ELSE IF idx >= res \div ((ac + sc) * 4) THEN AddrSizeFail(-FDT_ERR_NOTFOUND)
    ELSE IF res % ((ac + sc) * 4) # 0 THEN AddrSizeFail(-FDT_ERR_BADVALUE)
    ELSE SimpleAddrSizeRead(reg, idx, want_addr, want_size, ac, sc)

SimpleAddrSizeParent(t, nodeoffset, parent, idx, want_addr, want_size) ==
    IF parent = -FDT_ERR_NOTFOUND THEN AddrSizeFail(-FDT_ERR_BADNCELLS)
    ELSE SimpleAddrSizeCells(fdt_getprop(t, nodeoffset, "reg"),
                             PropLen(t, nodeoffset, "reg"), idx,
                             want_addr, want_size,
                             fdt_address_cells(t, parent),
                             fdt_size_cells(t, parent))

fdt_simple_addr_size(t, nodeoffset, idx, want_addr, want_size) ==
    IF ~HasProp(t, nodeoffset, "reg") THEN AddrSizeFail(-FDT_ERR_NOTFOUND)
    ELSE SimpleAddrSizeParent(t, nodeoffset, fdt_parent_offset(t, nodeoffset),
                              idx, want_addr, want_size)

(***************************************************************************)
(* fdt-mch.c: device instantiation.                                        *)
(***************************************************************************)
\* the names of blocklist[]
Blocklist == {N_pl050}

\* fdt_device_blocklist comparing whole names (strcmp) instead of prefixes
fdt_device_blocklist_strcmp(dev_id) ==
    IF dev_id \in Blocklist THEN -1 ELSE 0

fdt_device_blocklist(dev_id) ==
    IF \E b \in Blocklist : strncmp_eq(dev_id, b, Len(b)) THEN -1 ELSE 0

fdt_device_fixup(st, dev, dev_id) ==
    IF strncmp_eq(dev_id, N_pl08x, 4)
    THEN [st EXCEPT !.qdev[dev].downstream = TRUE]
    ELSE st

\* the outcome of one candidate: [s, ret, brk], brk the loop's break
Created(r, compat) ==
    [s |-> fdt_device_fixup(r.s, r.ret, compat), ret |-> r.ret, brk |-> TRUE]

\* the second attempt of a candidate, made when the first returned NULL
TrySecond(r, compat) ==
    IF r.ret # NULL THEN Created(r, compat)
    ELSE [s |-> r.s, ret |-> NULL, brk |-> FALSE]

TryFirst(r, types, compat, name2, node) ==
    IF r.ret # NULL THEN Created(r, compat)
    ELSE TrySecond(qdev_try_new(r.s, types, name2, node), compat)

\* TryNames with the underscore form attempted before the exact name
TryNames_alt_first(st, types, compat, node) ==
    IF fdt_device_blocklist(compat) # 0
    THEN [s |-> st, ret |-> NULL, brk |-> FALSE]
    ELSE TryFirst(qdev_try_new(st, types,
                               subst_compat_string(compat, "-", "_"), node),
                  types, compat, compat, node)

\* the body of the loop of try_create_fdt_device for the stripped name
TryNames(st, types, compat, node) ==
    IF fdt_device_blocklist(compat) # 0
    THEN [s |-> st, ret |-> NULL, brk |-> FALSE]
    ELSE TryFirst(qdev_try_new(st, types, compat, node),
                  types, compat, subst_compat_string(compat, "-", "_"), node)

\* one iteration of the loop of try_create_fdt_device over candidate i
\* (0-based)
TryCandidate(st, t, types, node, i) ==
    TryNames(st, types,
             strip_compat_string(fdt_stringlist_get(t, node, "compatible", i)),
             node)

RECURSIVE TryCreateFrom(_, _, _, _, _, _)
\* the loop after candidate i produced r
TryCreateNext(r, t, types, node, i, compat_num) ==
    IF r.brk
    THEN [s |-> r.s, ret |-> r.ret]
    ELSE TryCreateFrom(r.s, t, types, node, i + 1, compat_num)

TryCreateFrom(st, t, types, node, i, compat_num) ==
    IF i >= compat_num
    THEN [s |-> st, ret |-> NULL]
    ELSE TryCreateNext(TryCandidate(st, t, types, node, i),
                       t, types, node, i, compat_num)

\* a creation that stops the build when no candidate matched
DieIfNull(r) ==
    IF r.ret = NULL THEN [s |-> [r.s EXCEPT !.halt = "fatal"], ret |-> NULL]
    ELSE r

try_create_fdt_device_or_die(st, t, types, node) ==
    DieIfNull(TryCreateFrom(st, t, types, node, 0,
                            fdt_stringlist_count(t, node, "compatible")))

try_create_fdt_device(st, t, types, node) ==
    TryCreateFrom(st, t, types, node, 0,
                  fdt_stringlist_count(t, node, "compatible"))

(***************************************************************************)
(* fdt-mch-clock.c: connecting a device's clock inputs.  s.clocks is the   *)
(* array of clocks, s.clock_node_map the node of each; both have the       *)
(* length mch_fdt_init_clocks allocated.  s.halt names how the build       *)
(* stopped ("" while it runs).  ub is the outcome of the undefined         *)
(* behaviour the call may run into.                                        *)
(***************************************************************************)
UBOutcomes == {"abort", "crash", "garbage"}

\* a clock pointer read from beyond the end of s.clocks
GarbageClock == -1

\* the loop that looks ref_node up in s.clock_node_map: [idx, oob], idx the
\* 0-based index the loop stops at and oob whether it read past the array
ClockNodeFound(st, M) ==
    IF M # {}
    THEN [idx |-> (CHOOSE i \in M : \A j \in M : i <= j) - 1, oob |-> FALSE]
    ELSE [idx |-> st.num_clocks,
          oob |-> st.num_clocks > Len(st.clock_node_map)]

ClockNodeIndex(st, ref_node) ==
    ClockNodeFound(st, {i \in 1..Min(Len(st.clock_node_map), st.num_clocks) :
                           st.clock_node_map[i] = ref_node})

\* the name of the clock input for the idx-th entry of "clocks"
ClockInputName(t, node, idx) ==
    IF idx < fdt_stringlist_count(t, node, "clock-names")
    THEN fdt_stringlist_get(t, node, "clock-names", idx)
    ELSE BaseName(fdt_get_name(t, node))

qdev_connect_clock_in(st, dev, name, clk) ==
    [st EXCEPT !.qdev[dev].clocks = Append(@, [name |-> name, clk |-> clk])]

RECURSIVE LinkClocksFrom(_, _, _, _, _, _)
\* the body of the loop of mch_fdt_link_clocks once the lookup produced r
LinkClock(st, t, dev, node, idx, ub, r, name) ==
    IF r.oob
    THEN IF ub = "garbage"
         THEN LinkClocksFrom(qdev_connect_clock_in(st, dev, name, GarbageClock),
                             t, dev, node, idx + 1, ub)
         ELSE [st EXCEPT !.halt = ub]
    ELSE IF ~(r.idx < st.num_clocks)
    THEN [st EXCEPT !.halt = "abort"]
    ELSE LinkClocksFrom(qdev_connect_clock_in(st, dev, name, r.idx + 1),
                        t, dev, node, idx + 1, ub)

LinkClocksFrom(st, t, dev, node, idx, ub) ==
    IF ~HasProp(t, node, "clocks") \/ idx >= Len(fdt_getprop(t, node, "clocks"))
    THEN st
    ELSE LinkClock(st, t, dev, node, idx, ub,
                   ClockNodeIndex(st, fdt_node_offset_by_phandle(
                                          t, fdt_getprop(t, node, "clocks")[idx + 1])),
                   ClockInputName(t, node, idx))

mch_fdt_link_clocks(st, t, dev, node, ub) ==
    LinkClocksFrom(st, t, dev, node, 0, ub)

(***************************************************************************)
(* fdt-mch.c: the routines the classifier hands a node to.  Each returns   *)
(* [s, ret]: the new state and the device (NULL when none).  s.calls logs  *)
(* the routine each classified node was handed to.                         *)
(***************************************************************************)
Called(st, routine, node) ==
    [st EXCEPT !.calls = Append(@, [routine |-> routine, node |-> node])]

sysbus_realize(st, dev) == [st EXCEPT !.qdev[dev].realized = TRUE]

mch_fdt_add_pci_bus(st, t, types, node) ==
    [s |-> Called(st, "pci_bus", node), ret |-> NULL]

mch_fdt_add_spi_bus(st, t, types, node) ==
    [s |-> Called(st, "spi_bus", node), ret |-> NULL]

mch_fdt_add_generic_bus(st, t, types, node) ==
    [s |-> Called(st, "generic_bus", node), ret |-> NULL]

\* an i2c slave was created (or not) for the subnode
I2cChildCreated(c, addr, dev, subnode) ==
    IF c.ret # NULL
    THEN mch_fdt_dev_add_mapping(
             [c.s EXCEPT !.qdev[c.ret].address = addr % 256,
                         !.qdev[c.ret].realized = TRUE,
                         !.qdev[c.ret].bus = dev],
             c.ret, subnode)
    ELSE mch_fdt_dev_add_mapping(c.s, NULL, subnode)

I2cChildReg(st, t, types, dev, subnode, a) ==
    IF a.rc # 0
    THEN mch_fdt_dev_add_mapping(st, NULL, subnode)
    ELSE I2cChildCreated(try_create_fdt_device(st, t, types, subnode),
                         a.addr, dev, subnode)

\* one iteration of the loop over the subnodes of an i2c bus
I2cChild(st, t, types, dev, subnode) ==
    IF dev = NULL
    THEN mch_fdt_dev_add_mapping(st, NULL, subnode)
    ELSE I2cChildReg(st, t, types, dev, subnode,
                     fdt_simple_addr_size(t, subnode, 0, TRUE, FALSE))

RECURSIVE I2cChildren(_, _, _, _, _)
I2cChildren(st, t, types, dev, subnodes) ==
    IF subnodes = <<>> THEN st
    ELSE I2cChildren(I2cChild(st, t, types, dev, Head(subnodes)),
                     t, types, dev, Tail(subnodes))

\* mch_fdt_add_i2c_bus after the attempt to create the bus device
I2cBusCreated(c, t, types, node) ==
    [s   |-> I2cChildren(
                 mch_fdt_dev_add_mapping(
                     IF c.ret # NULL THEN sysbus_realize(c.s, c.ret) ELSE c.s,
                     c.ret, node),
                 t, types, c.ret, SortedSeq(Subnodes(t, node))),
     ret |-> c.ret]

mch_fdt_add_i2c_bus(st, t, types, node) ==
    I2cBusCreated(try_create_fdt_device(Called(st, "i2c_bus", node),
                                        t, types, node),
                  t, types, node)

\* sysbus_mmio_map for each reg entry that decodes
RECURSIVE MapRegs(_, _, _, _, _)
MapReg(st, t, dev, node, i, a) ==
    IF a.rc # 0 THEN st
    ELSE MapRegs([st EXCEPT !.qdev[dev].mmio = Append(@, a.addr)],
                 t, dev, node, i + 1)

MapRegs(st, t, dev, node, i) ==
    MapReg(st, t, dev, node, i, fdt_simple_addr_size(t, node, i, TRUE, TRUE))

\* mch_fdt_add_simple_device after the clocks of the new device were linked
SimpleDeviceLinked(l, t, dev, node) ==
    IF l.halt # "" THEN [s |-> l, ret |-> dev]
    ELSE [s |-> MapRegs(sysbus_realize(l, dev), t, dev, node, 0), ret |-> dev]

\* SimpleDeviceCreated without the clock hook-up
SimpleDeviceCreated_no_clocks(c, t, node, ub) ==
    IF c.ret = NULL THEN c
    ELSE SimpleDeviceLinked(c.s, t, c.ret, node)

\* mch_fdt_add_simple_device after the attempt to create the device
SimpleDeviceCreated(c, t, node, ub) ==
    IF c.ret = NULL THEN c
    ELSE SimpleDeviceLinked(mch_fdt_link_clocks(c.s, t, c.ret, node, ub),
                            t, c.ret, node)

SimpleDevice(st, t, types, node, ub) ==
    SimpleDeviceCreated(try_create_fdt_device(st, t, types, node), t, node, ub)

mch_fdt_add_simple_device(st, t, types, node, ub) ==
    SimpleDevice(Called(st, "simple_device", node), t, types, node, ub)

\* a controller maps its node when its device was created
ControllerCreated(r, node) ==
    IF r.ret # NULL /\ r.s.halt = ""
    THEN [s |-> mch_fdt_dev_add_mapping(r.s, r.ret, node), ret |-> r.ret]
    ELSE r

mch_fdt_add_intr_controller(st, t, types, node, ub) ==
    ControllerCreated(SimpleDevice(Called(st, "intr_controller", node),
                                   t, types, node, ub), node)

mch_fdt_add_gpio_controller(st, t, types, node, ub) ==
    ControllerCreated(SimpleDevice(Called(st, "gpio_controller", node),
                                   t, types, node, ub), node)

(***************************************************************************)
(* fdt-mch.c: the node classifier.                                         *)
(***************************************************************************)
\* the loop over the compatible strings that looks for an i2c or spi bus:
\* "i2c", "spi" or "" when the loop ends without a match
RECURSIVE BusKindFrom(_, _, _, _)
BusKindFrom(t, node, i, compat_num) ==
    IF i >= compat_num THEN ""
    ELSE LET compat == fdt_stringlist_get(t, node, "compatible", i)
             node_name == fdt_get_name(t, node)
         IN  IF strstr(compat, N_i2c) /\ strstr(node_name, N_i2c) THEN "i2c"
             ELSE IF strstr(compat, N_spi) /\ strstr(node_name, N_spi)
             THEN "spi"
             ELSE BusKindFrom(t, node, i + 1, compat_num)

BusKind(t, node) ==
    BusKindFrom(t, node, 0, fdt_stringlist_count(t, node, "compatible"))

HasDevType(t, node, prefix) ==
    /\ HasProp(t, node, "device_type")
    /\ strncmp_eq(fdt_getprop(t, node, "device_type"), prefix, 3)

\* the two controller tests in the opposite order
Controller_intc_first(st, t, types, node, ub) ==
    IF HasProp(t, node, "interrupt-controller")
    THEN mch_fdt_add_intr_controller(st, t, types, node, ub)
    ELSE IF HasProp(t, node, "gpio-controller")
    THEN mch_fdt_add_gpio_controller(st, t, types, node, ub)
    ELSE mch_fdt_add_simple_device(st, t, types, node, ub)

\* the tail of mch_fdt_add_device_node, from the gpio-controller test on
Controller(st, t, types, node, ub) ==
    IF HasProp(t, node, "gpio-controller")
    THEN mch_fdt_add_gpio_controller(st, t, types, node, ub)
    ELSE IF HasProp(t, node, "interrupt-controller")
    THEN mch_fdt_add_intr_controller(st, t, types, node, ub)
    ELSE mch_fdt_add_simple_device(st, t, types, node, ub)

ClockNode(st, node) ==
    [s   |-> [Called(st, "clock", node) EXCEPT !.num_clocks = @ + 1],
     ret |-> NULL]

\* the tests of a node with subnodes, bus the outcome of the i2c/spi loop
Bus(st, t, types, node, ub, bus) ==
    IF HasProp(t, node, "ranges")
    THEN mch_fdt_add_generic_bus(st, t, types, node)
    ELSE IF bus = "i2c" THEN mch_fdt_add_i2c_bus(st, t, types, node)
    ELSE IF bus = "spi" THEN mch_fdt_add_spi_bus(st, t, types, node)
    ELSE Controller(st, t, types, node, ub)

DevType(st, t, types, node, ub) ==
    IF HasDevType(t, node, N_pci) THEN mch_fdt_add_pci_bus(st, t, types, node)
    ELSE IF HasDevType(t, node, N_soc)
    THEN mch_fdt_add_generic_bus(st, t, types, node)
    ELSE IF has_subnodes(t, node)
    THEN Bus(st, t, types, node, ub, BusKind(t, node))
    ELSE Controller(st, t, types, node, ub)

\* Classify with the clock-node test after the device_type tests
Classify_clock_last(st, t, types, node, ub) ==
    IF HasDevType(t, node, N_pci) \/ HasDevType(t, node, N_soc)
    THEN DevType(st, t, types, node, ub)
    ELSE IF HasProp(t, node, "#clock-cells") THEN ClockNode(st, node)
    ELSE DevType(st, t, types, node, ub)

\* mch_fdt_add_device_node for a node that has no mapping yet
Classify(st, t, types, node, ub) ==
    IF HasProp(t, node, "#clock-cells") THEN ClockNode(st, node)
    ELSE DevType(st, t, types, node, ub)

AddDeviceNodeInfo(st, t, types, node, ub, info) ==
    IF info # NULL
    THEN [s |-> Called(st, "mapped", node), ret |-> st.dev_map[info].dev]
    ELSE Classify(st, t, types, node, ub)

mch_fdt_add_device_node(st, t, types, node, ub) ==
    AddDeviceNodeInfo(st, t, types, node, ub, mch_fdt_dev_find_mapping(st, node))

\* one invocation of mch_fdt_scan_node, without the recursion
ScanVisit(st, node) == [st EXCEPT !.visited = Append(@, node)]

mch_fdt_scan_node(st, t, types, node, ub) ==
    IF fdt_stringlist_count(t, node, "compatible") > 0
    THEN mch_fdt_add_device_node(ScanVisit(st, node), t, types, node, ub).s
    ELSE ScanVisit(st, node)

(***************************************************************************)
(* fdt-mch.c: mch_fdt_parse_init, CPUs and memory.  s.mch holds the        *)
(* machine options the build reads: cpu_type (<<>> when -cpu was not       *)
(* given), smp_cpus and arch_irqs, the number of lines the architecture's  *)
(* mch_fdt_get_cpu_irqs reports per CPU.  s.trace logs the stages of the   *)
(* build as they complete.                                                 *)
(***************************************************************************)
Stage(st, name) == [st EXCEPT !.trace = Append(@, name)]

\* exit(1) after an error report
Fatal(st, why) == [st EXCEPT !.halt = why]

\* the CPU models cpu_create() knows
CpuTypes == {N_cpu}

\* cpu_create(typename): the state with the new CPU; only called when the
\* type exists
cpu_create(st, typename) == [st EXCEPT !.cpu = Append(@, typename)]

\* the loop that creates num CPUs of mch->cpu_type
RECURSIVE CreateCpusOfType(_, _)
CreateCpusOfType(st, num) ==
    IF num = 0 THEN st
    ELSE IF st.mch.cpu_type \notin CpuTypes THEN Fatal(st, "fatal")
    ELSE CreateCpusOfType(cpu_create(st, st.mch.cpu_type), num - 1)

\* the body of the loop over the subnodes of the CPU node
CreateCpuOfNode(st, t, offset) ==
    IF ~HasProp(t, offset, "compatible")
         \/ fdt_getprop(t, offset, "compatible") = <<>>
    THEN Fatal(st, "fatal")
    ELSE IF fdt_getprop(t, offset, "compatible")[1] \in CpuTypes
    THEN cpu_create(st, fdt_getprop(t, offset, "compatible")[1])
    ELSE IF strip_compat_string(fdt_getprop(t, offset, "compatible")[1])
                \in CpuTypes
    THEN cpu_create(st, strip_compat_string(
                            fdt_getprop(t, offset, "compatible")[1]))
    ELSE Fatal(st, "fatal")

RECURSIVE CreateCpusOfNodes(_, _, _)
CreateCpusOfNodes(st, t, offsets) ==
    IF offsets = <<>> \/ st.halt # "" THEN st
    ELSE CreateCpusOfNodes(CreateCpuOfNode(st, t, Head(offsets)),
                           t, Tail(offsets))

\* the lines of the first CPU, whatever the CPU asked for
CpuIrqs_first_cpu(idx, num) == [i \in 1..num |-> [cpu |-> 0, line |-> i - 1]]

\* the lines mch_fdt_get_cpu_irqs returns for CPU idx
CpuIrqs(idx, num) == [i \in 1..num |-> [cpu |-> idx, line |-> i - 1]]

\* the loop of mch_fdt_intc_cpu_fixup from CPU idx on
RECURSIVE CpuFixupFrom(_, _)
CpuFixupFrom(st, idx) ==
    IF idx >= st.num_cpus THEN st
    ELSE IF st.mch.arch_irqs = 0
    THEN [st EXCEPT !.num_cpu_irqs = 0]
    ELSE CpuFixupFrom(
             [st EXCEPT !.num_cpu_irqs = st.mch.arch_irqs,
                        !.cpu_irqs = @ \o CpuIrqs(idx, st.mch.arch_irqs)],
             idx + 1)

mch_fdt_intc_cpu_fixup(st) ==
    IF st.halt # "" THEN st ELSE Stage(CpuFixupFrom(st, 0), "cpus")

\* mch_fdt_parse_init from the search for the CPU node to the CPU fixup
ParseInitCpus(st, t, cpu_node) ==
    IF cpu_node < 0
    THEN IF st.mch.cpu_type = <<>> THEN Fatal(st, "fatal")
         ELSE mch_fdt_intc_cpu_fixup(
                  CreateCpusOfType(
                      [st EXCEPT !.num_cpus = Max(st.mch.smp_cpus, 1)],
                      Max(st.mch.smp_cpus, 1)))
    ELSE mch_fdt_intc_cpu_fixup(
             CreateCpusOfNodes(
                 [st EXCEPT !.num_cpus = Cardinality(Subnodes(t, cpu_node))],
                 t, SortedSeq(Subnodes(t, cpu_node))))

\* the values an uninitialised uint64_t may hold
UninitSizes == {0, 1}

\* mch_fdt_parse_init, the memory: a is what fdt_simple_addr_size returned,
\* u_addr and u_size what reg_addr and reg_size hold when it did not write
\* them
ParseInitMemoryRead(st, a, u_addr, u_size) ==
    IF (IF a.wrote_size THEN a.size ELSE u_size) = 0
    THEN Fatal(st, "fatal")
    ELSE Stage([st EXCEPT
                   !.mch.ram_size = IF a.wrote_size THEN a.size ELSE u_size,
                   !.ram = <<[addr |-> IF a.wrote_addr THEN a.addr ELSE u_addr,
                              size |-> IF a.wrote_size THEN a.size
                                       ELSE u_size]>>],
               "memory")

ParseInitMemory(st, t, u_addr, u_size) ==
    ParseInitMemoryRead(
        st,
        fdt_simple_addr_size(t, fdt_subnode_offset(t, 0, N_memory), 0,
                             TRUE, TRUE),
        u_addr, u_size)

(***************************************************************************)
(* fdt-mch-clock.c: mch_fdt_init_clocks.                                   *)
(***************************************************************************)
\* fdt_getprop_long: the cells of the property folded into one value
fdt_getprop_long(t, node, prop) ==
    ReadCells(fdt_getprop(t, node, prop), 1,
              Len(fdt_getprop(t, node, prop)), 0)

\* fdt_getprop_cell(fdt, node, prop, &val) for val initialised to dflt
CellOr(t, node, prop, dflt) ==
    IF HasProp(t, node, prop) THEN FirstCell(t, node, prop) ELSE dflt

\* clock_new and clock_set_hz for one node with #clock-cells
NewClock(t, node) ==
    [name   |-> fdt_get_name(t, node),
     hz     |-> IF HasProp(t, node, "clock-frequency")
                THEN fdt_getprop_long(t, node, "clock-frequency") ELSE 0,
     source |-> 0, mult |-> 0, div |-> 0]

\* the loop that creates the clocks
RECURSIVE CreateClocks(_, _, _)
CreateClocks(st, t, nodes) ==
    IF nodes = <<>> THEN st
    ELSE CreateClocks(
             [st EXCEPT !.clocks = Append(@, NewClock(t, Head(nodes))),
                        !.clock_node_map = Append(@, Head(nodes))],
             t, Tail(nodes))

\* the index (1-based) of a node in s.clock_node_map, 0 when it has none
ClockOfNode(st, node) ==
    IF \E i \in 1..Len(st.clock_node_map) : st.clock_node_map[i] = node
    THEN CHOOSE i \in 1..Len(st.clock_node_map) :
             /\ st.clock_node_map[i] = node
             /\ \A j \in 1..(i - 1) : st.clock_node_map[j] # node
    ELSE 0

\* clock_set_source and clock_set_callback for a derived clock
SetSource(st, t, node, target, parent) ==
    [st EXCEPT !.clocks[target].source = parent,
               !.clocks[target].mult = CellOr(t, node, "clock-mult", 1),
               !.clocks[target].div = CellOr(t, node, "clock-div", 1)]

\* the loop over the "clocks" entries of a derived clock
RECURSIVE LinkDerived(_, _, _, _, _)
LinkDerivedTo(st, t, node, target, idx, parent) ==
    IF parent = 0 THEN [st EXCEPT !.halt = "abort"]
    ELSE LinkDerived(SetSource(st, t, node, target, parent),
                     t, node, target, idx + 1)

LinkDerived(st, t, node, target, idx) ==
    IF idx >= Len(fdt_getprop(t, node, "clocks")) THEN st
    ELSE LinkDerivedTo(st, t, node, target, idx,
                       ClockOfNode(st, fdt_node_offset_by_phandle(
                                           t, fdt_getprop(t, node, "clocks")[idx + 1])))

\* the loop over the nodes with a "clocks" property
RECURSIVE HookDerived(_, _, _)
HookDerived(st, t, nodes) ==
    IF nodes = <<>> \/ st.halt # "" THEN st
    ELSE IF ~HasProp(t, Head(nodes), "#clock-cells")
    THEN HookDerived(st, t, Tail(nodes))
    ELSE HookDerived(LinkDerived(st, t, Head(nodes),
                                 ClockOfNode(st, Head(nodes)), 0),
                     t, Tail(nodes))

InitClocksCounted(st, t, nodes) ==
    IF nodes = <<>> THEN st
    ELSE HookDerived(CreateClocks(st, t, nodes), t, NodesWithProp(t, "clocks"))

mch_fdt_init_clocks(st, t) ==
    InitClocksCounted(
        [st EXCEPT !.num_clocks = Len(NodesWithProp(t, "#clock-cells"))],
        t, NodesWithProp(t, "#clock-cells"))

(***************************************************************************)
(* fdt-mch-intc.c: the interrupt tree.  s.wired logs the calls of          *)
(* sysbus_connect_irq(dev, n, irq) as [dev, n, to], to the line the output *)
(* n of dev was connected to: line `line' of CPU or device `id'.           *)
(***************************************************************************)
\* the values an uninitialised uint32_t may hold
UninitWords == {0, 2, MaxWord}

\* a line handle read from beyond the end of info->irqs
GarbageLine == [kind |-> "garbage", id |-> 0, line |-> 0]

sysbus_connect_irq(st, dev, n, to) ==
    [st EXCEPT !.wired = Append(@, [dev |-> dev, n |-> n, to |-> to])]

\* a lookup that reads the node's own property only
mch_fdt_intc_get_parent_node_own(t, node) ==
    IF HasProp(t, node, "interrupt-parent")
    THEN [hang |-> FALSE,
          node |-> fdt_node_offset_by_phandle(
                       t, FirstCell(t, node, "interrupt-parent"))]
    ELSE [hang |-> FALSE, node |-> -FDT_ERR_NOTFOUND]

\* mch_fdt_intc_get_parent_node: [hang, node], hang when the loop never ends
RECURSIVE mch_fdt_intc_get_parent_node(_, _)
mch_fdt_intc_get_parent_node(t, node) ==
    IF HasProp(t, node, "interrupt-parent")
    THEN IF FirstCell(t, node, "interrupt-parent") = 0
         THEN [hang |-> TRUE, node |-> node]
         ELSE [hang |-> FALSE,
               node |-> fdt_node_offset_by_phandle(
                            t, FirstCell(t, node, "interrupt-parent"))]
    ELSE IF fdt_parent_offset(t, node) < 0
    THEN [hang |-> FALSE, node |-> -FDT_ERR_NOTFOUND]
    ELSE mch_fdt_intc_get_parent_node(t, fdt_parent_offset(t, node))

\* the loop of phase 0 that connects the CPU lines from idx on
RECURSIVE ConnectCpuIrqs(_, _, _)
ConnectCpuIrqs(st, dev, idx) ==
    IF idx >= st.num_cpus * st.num_cpu_irqs THEN st
    ELSE IF dev = NULL
    THEN [sysbus_connect_irq(st, NULL, idx,
                             [kind |-> "cpu", id |-> st.cpu_irqs[idx + 1].cpu,
                              line |-> st.cpu_irqs[idx + 1].line])
             EXCEPT !.halt = "crash"]
    ELSE ConnectCpuIrqs(
             sysbus_connect_irq(st, dev, idx,
                                [kind |-> "cpu", id |-> st.cpu_irqs[idx + 1].cpu,
                                 line |-> st.cpu_irqs[idx + 1].line]),
             dev, idx + 1)

\* phase 0 once the root's interrupt-parent was looked up in the mapping
IntcPhase0Info(st, info) ==
    IF info = NULL THEN Fatal(st, "fatal")
    ELSE ConnectCpuIrqs(st, st.dev_map[info].dev, 0)

\* phase 0 of mch_fdt_intc_build_tree
mch_fdt_intc_phase0(st, t) ==
    IF ~HasProp(t, 0, "interrupt-parent") THEN Fatal(st, "fatal")
    ELSE IntcPhase0Info(
             st, mch_fdt_dev_find_mapping(
                     st, fdt_node_offset_by_phandle(
                             t, FirstCell(t, 0, "interrupt-parent"))))

\* whether phase 1 hooks the controller up: it is mapped with a device
IsLive(st, node) ==
    /\ mch_fdt_dev_find_mapping(st, node) # NULL
    /\ st.dev_map[mch_fdt_dev_find_mapping(st, node)].dev # NULL

\* the first cell, whatever the width
IrqCell_first(num_intr_cell) == 0

\* the cell of a consumer's "interrupts" the code reads
IrqCell(num_intr_cell) == IF num_intr_cell = 3 THEN 1 ELSE 0

\* fdt_getprop_array_u32(fdt, offset, "interrupts", idx, &irq), u what irq
\* holds when the call fails
ReadIrq(t, offset, idx, u) ==
    IF HasProp(t, offset, "interrupts")
         /\ idx < Len(fdt_getprop(t, offset, "interrupts"))
    THEN fdt_getprop(t, offset, "interrupts")[idx + 1]
    ELSE u

\* the irq + 1 of uint32_t
IrqPlusOne(irq) == (irq + 1) % Word

\* the sizing loop over the nodes with "interrupts": [num_irqs, cnt, hang]
RECURSIVE SizeFrom(_, _, _, _, _, _)
SizeOne(acc, t, node, sel, consumers, u, p) ==
    IF p.hang THEN [acc EXCEPT !.hang = TRUE]
    ELSE IF p.node # node THEN SizeFrom(acc, t, node, sel, Tail(consumers), u)
    ELSE SizeFrom(
             [acc EXCEPT
                 !.num_irqs =
                     Max(@, IrqPlusOne(ReadIrq(t, Head(consumers), sel, u))),
                 !.cnt = @ + 1],
             t, node, sel, Tail(consumers), u)

SizeFrom(acc, t, node, sel, consumers, u) ==
    IF consumers = <<>> THEN acc
    ELSE SizeOne(acc, t, node, sel, consumers, u,
                 mch_fdt_intc_get_parent_node(t, Head(consumers)))

\* the end of the sizing of the controller whose entry is info
IntcSized(st, info, acc) ==
    IF acc.hang THEN [st EXCEPT !.halt = "hang"]
    ELSE IF ~(acc.cnt <= acc.num_irqs)
    THEN [st EXCEPT !.dev_map[info].num_irqs = acc.num_irqs,
                    !.halt = "abort"]
    ELSE [st EXCEPT !.dev_map[info].num_irqs = acc.num_irqs]

\* phase 1 for a live controller, up to the assertion
IntcSizeInfo(st, t, node, info, u) ==
    IntcSized(st, info,
              SizeFrom([num_irqs |-> st.dev_map[info].num_irqs, cnt |-> 0,
                        hang |-> FALSE],
                       t, node, IrqCell(CellOr(t, node, "#interrupt-cells", 0)),
                       NodesWithProp(t, "interrupts"), u))

mch_fdt_intc_size(st, t, node, u) ==
    IntcSizeInfo(st, t, node, mch_fdt_dev_find_mapping(st, node), u)

\* the connection loop over the nodes with "interrupts"
RECURSIVE IntcConnectFrom(_, _, _, _, _, _, _, _)
IntcConnectIrq(st, t, node, info, sel, consumers, u, ub, irq) ==
    IF irq < st.dev_map[info].irqs
    THEN IntcConnectFrom(
             sysbus_connect_irq(st, st.dev_map[info].dev, 0,
                                [kind |-> "dev", id |-> st.dev_map[info].dev,
                                 line |-> irq]),
             t, node, info, sel, Tail(consumers), u, ub)
    ELSE IF ub = "garbage"
    THEN IntcConnectFrom(
             sysbus_connect_irq(st, st.dev_map[info].dev, 0, GarbageLine),
             t, node, info, sel, Tail(consumers), u, ub)
    ELSE [st EXCEPT !.halt = ub]

IntcConnectOne(st, t, node, info, sel, consumers, u, ub, p) ==
    IF p.hang THEN [st EXCEPT !.halt = "hang"]
    ELSE IF p.node # node
    THEN IntcConnectFrom(st, t, node, info, sel, Tail(consumers), u, ub)
    ELSE IntcConnectIrq(st, t, node, info, sel, consumers, u, ub,
                        ReadIrq(t, Head(consumers), sel, u))

IntcConnectFrom(st, t, node, info, sel, consumers, u, ub) ==
    IF consumers = <<>> THEN st
    ELSE IntcConnectOne(st, t, node, info, sel, consumers, u, ub,
                        mch_fdt_intc_get_parent_node(t, Head(consumers)))

\* phase 2 and the connection loop for a live controller
IntcConnectInfo(st, t, node, info, u, ub) ==
    IntcConnectFrom(
        [st EXCEPT !.dev_map[info].irqs = st.dev_map[info].num_irqs],
        t, node, info, IrqCell(CellOr(t, node, "#interrupt-cells", 0)),
        NodesWithProp(t, "interrupts"), u, ub)

mch_fdt_intc_connect(st, t, node, u, ub) ==
    IntcConnectInfo(st, t, node, mch_fdt_dev_find_mapping(st, node), u, ub)

(***************************************************************************)
(* fdt-mch-gpio.c: the GPIO pass.  s.gpio logs the calls of                *)
(* qdev_connect_gpio_out(dev, line, qdev_get_gpio_in(to_dev, to_line)),    *)
(* each with the node (offset) whose "gpios" the loop was walking.         *)
(***************************************************************************)
\* fdt_getprop_array_cell(fdt, node, prop, stride, row, idx, &val) == 0
ArrayCellOk(t, node, prop, stride, row, idx) ==
    /\ HasProp(t, node, prop)
    /\ idx < stride
    /\ row < Len(fdt_getprop(t, node, prop)) \div stride
    /\ Len(fdt_getprop(t, node, prop)) % stride = 0

\* the value val holds after the call, u when the call did not write it
ArrayCell(t, node, prop, stride, row, idx, u) ==
    IF ArrayCellOk(t, node, prop, stride, row, idx)
    THEN fdt_getprop(t, node, prop)[idx + stride * row + 1]
    ELSE u

qdev_connect_gpio_out(st, offset, dev, line, to_dev, to_line) ==
    [st EXCEPT !.gpio = Append(@, [offset |-> offset, dev |-> dev,
                                   line |-> line, to_dev |-> to_dev,
                                   to_line |-> to_line])]

\* the loop over the entries of the "gpios" of one node, from row on
RECURSIVE GpioRows(_, _, _, _, _, _, _, _)
GpioRows(st, t, node, dev, offset, stride, row, u) ==
    IF ~ArrayCellOk(t, offset, "gpios", stride, row, 0) THEN st
    ELSE IF fdt_node_offset_by_phandle(
                t, ArrayCell(t, node, "gpios", stride, row, 0, u.phandle))
              # node
    THEN GpioRows(st, t, node, dev, offset, stride, row + 1, u)
    ELSE GpioRows(
             qdev_connect_gpio_out(
                 st, offset, dev,
                 ArrayCell(t, node, "gpios", stride, row, 1, u.gpio),
                 dev, row),
             t, node, dev, offset, stride, row + 1, u)

\* the loop over the nodes with "gpios" for the controller node
RECURSIVE GpioConsumers(_, _, _, _, _, _, _)
GpioConsumers(st, t, node, dev, stride, consumers, u) ==
    IF consumers = <<>> THEN st
    ELSE GpioConsumers(
             GpioRows(st, t, node, dev, Head(consumers), stride, 0, u),
             t, node, dev, stride, Tail(consumers), u)

\* the loop over the nodes with "gpio-controller"
RECURSIVE GpioControllers(_, _, _, _)
GpioControllers(st, t, nodes, u) ==
    IF nodes = <<>> THEN st
    ELSE IF ~IsLive(st, Head(nodes)) THEN GpioControllers(st, t, Tail(nodes), u)
    ELSE GpioControllers(
             GpioConsumers(
                 st, t, Head(nodes),
                 st.dev_map[mch_fdt_dev_find_mapping(st, Head(nodes))].dev,
                 CellOr(t, Head(nodes), "#gpio-cells", 0),
                 NodesWithProp(t, "gpios"), u),
             t, Tail(nodes), u)

mch_fdt_connect_gpio(st, t, u) ==
    Stage(GpioControllers(st, t, NodesWithProp(t, "gpio-controller"), u),
          "gpio")

\* the root of a tree without properties
RootNode == [parent |-> -1, name |-> <<>>, props |-> <<>>]

\* the machine options when none is given
NoOptions == [cpu_type |-> <<>>, smp_cpus |-> 0, arch_irqs |-> 0, ram_size |-> 0]

InitState ==
    [mch |-> NoOptions, dev_map |-> <<>>, qdev |-> <<>>, tried |-> <<>>,
     calls |-> <<>>, visited |-> <<>>, trace |-> <<>>, halt |-> "",
     cpu |-> <<>>, num_cpus |-> 0, num_cpu_irqs |-> 0, cpu_irqs |-> <<>>,
     ram |-> <<>>, num_clocks |-> 0, clocks |-> <<>>, clock_node_map |-> <<>>,
     wired |-> <<>>, gpio |-> <<>>]

(***************************************************************************)
(* Specification Spec: mch_fdt_parse_init, one action per stage of the     *)
(* build, over the trees made of a root, an optional CPU node, an optional *)
(* memory node and up to MaxSlots device subtrees drawn from DevKinds.     *)
(* While the scan runs cur is the position in ScanOrder of the node        *)
(* mch_fdt_scan_node is called on next; in the interrupt pass it is the    *)
(* position of the controller in the list of interrupt-controller nodes.   *)
(***************************************************************************)
\* a node of a subtree: rel = 0 for the subtree's top node, a child of the
\* root, and 1 for a child of the top node
TopNode(name, props) == [rel |-> 0, name |-> name, props |-> props]
SubNode(name, props) == [rel |-> 1, name |-> name, props |-> props]

K_uart ==
    <<TopNode(N_u_1, ("compatible" :> <<N_v_a_b>>) @@ ("reg" :> <<0, 16, 1>>)
                       @@ ("interrupts" :> <<5>>))>>

K_uart2 ==
    <<TopNode(N_u_1, ("compatible" :> <<N_u>>) @@ ("reg" :> <<0, 32, 1>>)
                       @@ ("interrupts" :> <<2, 7, 4>>))>>

K_nodev ==
    <<TopNode(N_x, ("compatible" :> <<N_x>>) @@ ("interrupts" :> <<1>>))>>

K_intc ==
    <<TopNode(N_u, ("compatible" :> <<N_u>>) @@ ("interrupt-controller" :> <<>>)
                     @@ ("#interrupt-cells" :> <<1>>) @@ ("phandle" :> <<1>>))>>

K_intc3 ==
    <<TopNode(N_u, ("compatible" :> <<N_u>>) @@ ("interrupt-controller" :> <<>>)
                     @@ ("#interrupt-cells" :> <<3>>) @@ ("phandle" :> <<1>>))>>

K_intc_fail ==
    <<TopNode(N_x, ("compatible" :> <<N_x>>) @@ ("interrupt-controller" :> <<>>)
                     @@ ("#interrupt-cells" :> <<1>>) @@ ("phandle" :> <<1>>))>>

K_gpio_intc ==
    <<TopNode(N_u, ("compatible" :> <<N_u>>) @@ ("gpio-controller" :> <<>>)
                     @@ ("interrupt-controller" :> <<>>)
                     @@ ("#gpio-cells" :> <<2>>) @@ ("#interrupt-cells" :> <<1>>)
                     @@ ("gpios" :> <<2, 6>>) @@ ("phandle" :> <<2>>))>>

K_gpio ==
    <<TopNode(N_u, ("compatible" :> <<N_u>>) @@ ("gpio-controller" :> <<>>)
                     @@ ("#gpio-cells" :> <<2>>) @@ ("phandle" :> <<2>>))>>

K_gpio_user ==
    <<TopNode(N_u_1, ("compatible" :> <<N_u>>) @@ ("gpios" :> <<2, 3>>)
                       @@ ("interrupt-parent" :> <<2>>)
                       @@ ("interrupts" :> <<1>>))>>

K_i2c ==
    <<TopNode(N_i2c_1, ("compatible" :> <<N_v_i2c>>)
                         @@ ("#address-cells" :> <<1>>)
                         @@ ("#size-cells" :> <<0>>) @@ ("phandle" :> <<4>>)),
      SubNode(N_u_1, ("compatible" :> <<N_u>>) @@ ("reg" :> <<80>>))>>

K_i2c_fail ==
    <<TopNode(N_i2c_1, ("compatible" :> <<N_v_i2c_x>>)
                         @@ ("interrupt-controller" :> <<>>)
                         @@ ("#interrupt-cells" :> <<1>>)
                         @@ ("phandle" :> <<1>>)),
      SubNode(N_u_1, ("compatible" :> <<N_u>>))>>

K_clk ==
    <<TopNode(N_clk, ("compatible" :> <<N_clk>>) @@ ("#clock-cells" :> <<0>>)
                       @@ ("clock-frequency" :> <<100>>)
                       @@ ("phandle" :> <<3>>))>>

K_clk_derived ==
    <<TopNode(N_clk, ("#clock-cells" :> <<0>>) @@ ("clocks" :> <<3>>)
                       @@ ("clock-div" :> <<4>>) @@ ("phandle" :> <<5>>))>>

K_clks == K_clk \o K_clk_derived

K_intc_clk ==
    <<TopNode(N_u, ("compatible" :> <<N_u>>) @@ ("interrupt-controller" :> <<>>)
                     @@ ("#interrupt-cells" :> <<1>>) @@ ("phandle" :> <<1>>)
                     @@ ("clocks" :> <<5>>))>>

K_plain ==
    <<TopNode(N_x, <<>>),
      SubNode(N_u_1, ("compatible" :> <<N_a__b>>) @@ ("reg" :> <<0, 48, 1>>)
                       @@ ("interrupts" :> <<3>>) @@ ("clocks" :> <<3>>)
                       @@ ("clock-names" :> <<N_clk>>))>>

K_hang ==
    <<TopNode(N_u_1, ("compatible" :> <<N_u>>) @@ ("interrupts" :> <<1>>)
                       @@ ("interrupt-parent" :> <<0>>))>>

DevKinds ==
    {K_uart, K_uart2, K_nodev, K_intc, K_intc3, K_intc_fail, K_gpio_intc,
     K_gpio, K_gpio_user, K_i2c, K_i2c_fail, K_clk, K_clk_derived, K_clks,
     K_intc_clk, K_plain, K_hang}

K_cpus ==
    <<TopNode(N_cpus, <<>>),
      SubNode(N_cpu_0, ("compatible" :> <<N_v_cpu>>))>>

K_memory == <<TopNode(N_memory, "reg" :> <<0, 0, 256>>)>>

K_memory_bad == <<TopNode(N_memory, "reg" :> <<0, 256>>)>>

\* the device types of the registry
BuildTypes == {N_a__b, N_u, N_i2c}

\* the nodes of a subtree appended to the nodes placed so far
Place(nodes, kind) ==
    nodes \o [i \in 1..Len(kind) |->
                 [parent |-> IF kind[i].rel = 0 THEN 0 ELSE Len(nodes),
                  name   |-> kind[i].name,
                  props  |-> kind[i].props]]

RECURSIVE PlaceAll(_, _)
PlaceAll(nodes, kinds) ==
    IF kinds = <<>> THEN nodes
    ELSE PlaceAll(Place(nodes, Head(kinds)), Tail(kinds))

\* the tree whose node n is nodes[n + 1]
TreeOfNodes(nodes) == [n \in 0..(Len(nodes) - 1) |-> nodes[n + 1]]

TreeOf(rootprops, kinds) ==
    TreeOfNodes(PlaceAll(<<[parent |-> -1, name |-> <<>>, props |-> rootprops]>>,
                         kinds))

RootProps == {<<>>, "interrupt-parent" :> <<1>>, "interrupt-parent" :> <<2>>,
              "interrupt-parent" :> <<9>>}

CpuKinds == {<<>>, <<K_cpus>>}

MemKinds == {<<>>, <<K_memory>>, <<K_memory_bad>>}

SlotLists == UNION {[1..n -> DevKinds] : n \in 0..MaxSlots}

Options == [cpu_type : {<<>>, N_cpu}, smp_cpus : {0, 2}, arch_irqs : {0, 2},
            ram_size : {0}]

Init ==
    /\ \E rootprops \in RootProps, cpus \in CpuKinds, mem \in MemKinds,
          slots \in SlotLists :
          fdt = TreeOf(rootprops, cpus \o mem \o slots)
    /\ qom = BuildTypes
    /\ \E mch \in Options : s = [InitState EXCEPT !.mch = mch]
    /\ pc = "start"
    /\ cur = 0
    /\ ret = NULL

\* the top-level ancestor of a node other than the root
RECURSIVE TopAncestor(_, _)
TopAncestor(t, node) ==
    IF t[node].parent = 0 THEN node ELSE TopAncestor(t, t[node].parent)

\* the nodes mch_fdt_scan_node is called on, in the order of the calls
ScanOrder(t) ==
    SortedSeq({n \in NodesOf(t) \ {0} :
                  /\ fdt_get_name(t, TopAncestor(t, n)) # N_cpus
                  /\ fdt_get_name(t, TopAncestor(t, n)) # N_memory})

IntcNodes(t) == NodesWithProp(t, "interrupt-controller")

\* the build goes on at next, unless it stopped
Continue(st, next, c) ==
    /\ s' = st
    /\ pc' = IF st.halt # "" THEN "halted" ELSE next
    /\ cur' = c
    /\ UNCHANGED <<fdt, qom, ret>>

CreateCpus ==
    /\ pc = "start"
    /\ Continue(ParseInitCpus(s, fdt, fdt_subnode_offset(fdt, 0, N_cpus)),
                "mem", cur)

InitMemory ==
    /\ pc = "mem"
    /\ \E u_addr \in UninitSizes, u_size \in UninitSizes :
          Continue(ParseInitMemory(s, fdt, u_addr, u_size), "clocks", cur)

\* a stage that may have stopped the build
StageIf(st, name) == IF st.halt # "" THEN st ELSE Stage(st, name)

\* the loop over the subnodes of the root ends at once when it has no node
\* to scan
ScanStarted(st, t) ==
    IF ScanOrder(t) = <<>> THEN StageIf(st, "scan") ELSE st

InitClocks ==
    /\ pc = "clocks"
    /\ Continue(ScanStarted(StageIf(mch_fdt_init_clocks(s, fdt), "clocks"),
                            fdt),
                IF ScanOrder(fdt) = <<>> THEN "intc0" ELSE "scan", 1)

\* the scan after the call on the node at position cur
Scanned(st, last) ==
    IF last
    THEN Continue(StageIf(st, "scan"), "intc0", cur)
    ELSE Continue(st, "scan", cur + 1)

ScanNode ==
    /\ pc = "scan"
    /\ \E ub \in UBOutcomes :
          Scanned(mch_fdt_scan_node(s, fdt, qom, ScanOrder(fdt)[cur], ub),
                  cur = Len(ScanOrder(fdt)))

IntcPhase0 ==
    /\ pc = "intc0"
    /\ Continue(StageIf(mch_fdt_intc_phase0(s, fdt), "intc0"),
                IF IntcNodes(fdt) = <<>> THEN "gpio" ELSE "intc_size", 1)

\* phase 1 goes on with the controller after the one at position cur
NextController(st) ==
    IF cur = Len(IntcNodes(fdt))
    THEN Continue(StageIf(st, "intc"), "gpio", cur)
    ELSE Continue(st, "intc_size", cur + 1)

IntcSize ==
    /\ pc = "intc_size"
    /\ IF IsLive(s, IntcNodes(fdt)[cur])
       THEN \E u \in UninitWords :
               Continue(mch_fdt_intc_size(s, fdt, IntcNodes(fdt)[cur], u),
                        "intc_connect", cur)
       ELSE NextController(s)

IntcConnect ==
    /\ pc = "intc_connect"
    /\ \E u \in UninitWords, ub \in UBOutcomes :
          NextController(
              mch_fdt_intc_connect(s, fdt, IntcNodes(fdt)[cur], u, ub))

GpioConnect ==
    /\ pc = "gpio"
    /\ \E phandle \in UninitWords, gpio \in UninitWords :
          Continue(mch_fdt_connect_gpio(
                       s, fdt, [phandle |-> phandle, gpio |-> gpio]),
                   "completed", cur)

\* error_report("Completed init. Exiting..."); exit(1)
CompleteInit ==
    /\ pc = "completed"
    /\ Continue(Fatal(s, "completed"), "halted", cur)

Next ==
    \/ CreateCpus
    \/ InitMemory
    \/ InitClocks
    \/ ScanNode
    \/ IntcPhase0
    \/ IntcSize
    \/ IntcConnect
    \/ GpioConnect
    \/ CompleteInit

Spec == Init /\ [][Next]_vars

(***************************************************************************)
(* Specification SpecSizing: the sizing loop of mch_fdt_intc_build_tree    *)
(* run twice for one live controller, over trees with the controller at    *)
(* node 1 and one or two consumers with up to MaxIrqCells cells of         *)
(* "interrupts".  ret keeps the line count the first run recorded.         *)
(***************************************************************************)
SizingCells == {0, 5, MaxWord}

SizingIrqs == UNION {[1..n -> SizingCells] : n \in 1..MaxIrqCells}

SizingTree(width, irqs) ==
    TreeOf("interrupt-parent" :> <<1>>,
           <<<<TopNode(N_u, ("compatible" :> <<N_u>>)
                              @@ ("interrupt-controller" :> <<>>)
                              @@ ("#interrupt-cells" :> <<width>>)
                              @@ ("phandle" :> <<1>>))>>>>
           \o [i \in 1..Len(irqs) |->
                  <<TopNode(N_u_1, ("compatible" :> <<N_u>>)
                                     @@ ("interrupts" :> irqs[i]))>>])

\* the state after the scan created and recorded the controller's device
SizingState ==
    [InitState EXCEPT !.qdev = <<NewDevice(N_u, 1)>>,
                      !.dev_map = <<NewInfo(1, 1)>>]

InitSizing ==
    /\ \E width \in {1, 3}, first \in SizingIrqs,
          more \in {<<>>} \cup {<<i>> : i \in SizingIrqs} :
          fdt = SizingTree(width, <<first>> \o more)
    /\ qom = {N_u}
    /\ s = SizingState
    /\ pc = "first"
    /\ cur = 1
    /\ ret = NULL

\* the state after a run of the sizing loop
Sized(st) ==
    /\ s' = st
    /\ pc' = IF st.halt # "" THEN "halted"
             ELSE IF pc = "first" THEN "second" ELSE "done"
    /\ ret' = IF pc = "first" THEN st.dev_map[1].num_irqs ELSE ret
    /\ UNCHANGED <<fdt, qom, cur>>

SizeController ==
    /\ pc \in {"first", "second"}
    /\ \E u \in UninitWords : Sized(mch_fdt_intc_size(s, fdt, cur, u))

NextSizing == SizeController

SpecSizing == InitSizing /\ [][NextSizing]_vars

(***************************************************************************)
(* Specification SpecLines: phases 1 and 2 of mch_fdt_intc_build_tree for  *)
(* one live controller over the trees of SpecSizing: the sizing loop with  *)
(* its assertion, then the allocation and the connection loop.  The stage  *)
(* "sized" is recorded when the assertion held.                            *)
(***************************************************************************)
InitLines ==
    /\ \E width \in {1, 3}, first \in SizingIrqs,
          more \in {<<>>} \cup {<<i>> : i \in SizingIrqs} :
          fdt = SizingTree(width, <<first>> \o more)
    /\ qom = {N_u}
    /\ s = SizingState
    /\ pc = "size"
    /\ cur = 1
    /\ ret = NULL

\* the sizing loop and the assertion
SizeOnce ==
    /\ pc = "size"
    /\ \E u \in UninitWords :
          Continue(StageIf(mch_fdt_intc_size(s, fdt, cur, u), "sized"),
                   "connect", cur)

\* the allocation and the connection loop
ConnectLines ==
    /\ pc = "connect"
    /\ \E u \in UninitWords, ub \in UBOutcomes :
          Continue(mch_fdt_intc_connect(s, fdt, cur, u, ub), "connected", cur)

NextLines ==
    \/ SizeOnce
    \/ ConnectLines

SpecLines == InitLines /\ [][NextLines]_vars

(***************************************************************************)
(* fdt-mch-clock.c: mch_fdt_clock_cb, the callback of a derived clock.     *)
(* uint64_t is scaled to FreqWord values, arithmetic is modulo FreqWord.   *)
(* A derived clock is [src_hz, hz, mult, div, param, halt]: the rate of    *)
(* its source, its own rate, the factors and the ClockParameters pointer   *)
(* registered with clock_set_callback (NULL or 1).                         *)
(***************************************************************************)
FreqWord == 256

\* the test "new_freq * param->mult < new_freq"
MultOverflows(new_freq, mult) == ((new_freq * mult) % FreqWord) < new_freq

\* the body of the callback after the assertion: the order chosen and the
\* rate handed to clock_set_hz (-1 marks the division by zero)
ClockCbRate(new_freq, mult, div) ==
    IF MultOverflows(new_freq, mult)
    THEN [order |-> "div_first",
          rate |-> IF div = 0 THEN -1
                   ELSE ((new_freq \div div) * mult) % FreqWord]
    ELSE [order |-> "mult_first",
          rate |-> IF div = 0 THEN -1
                   ELSE ((new_freq * mult) % FreqWord) \div div]

\* mch_fdt_clock_cb(opaque): g_assert(!param) lets only a NULL parameter
\* pass, which param->clk then dereferences
mch_fdt_clock_cb(clk, param) ==
    IF param # NULL THEN [clk EXCEPT !.halt = "abort"]
    ELSE [clk EXCEPT !.halt = "crash"]

(***************************************************************************)
(* Specification SpecClockCb: a derived clock linked to its source with    *)
(* factors up to MaxFactor.  Either the rate of the source changes and the *)
(* clock framework calls the registered callback, or the computation of    *)
(* the callback is applied to the linked clock's values.  cur counts the   *)
(* changes of the source.                                                  *)
(***************************************************************************)
Rates == 0..(FreqWord - 1)

NewRates == {50, 100, 200}

InitClockCb ==
    /\ fdt = (0 :> RootNode)
    /\ qom = {}
    /\ \E r \in Rates, m \in 0..MaxFactor, d \in 0..MaxFactor :
          s = [src_hz |-> r, hz |-> 0, mult |-> m, div |-> d, param |-> 1,
               halt |-> ""]
    /\ pc = "linked"
    /\ cur = 0
    /\ ret = NULL

\* the state after the callback returned or stopped the program
CallbackDone(clk) ==
    /\ s' = clk
    /\ pc' = IF clk.halt # "" THEN "halted" ELSE "linked"
    /\ cur' = cur + 1
    /\ UNCHANGED <<fdt, qom, ret>>

\* the source's rate changes to r and the callback runs with the parameter
\* registered for the derived clock
SetSourceRate ==
    /\ pc = "linked"
    /\ \E r \in NewRates :
          CallbackDone(mch_fdt_clock_cb([s EXCEPT !.src_hz = r], s.param))

\* lines 58-66 applied to the values of the linked clock
ComputeRate ==
    /\ pc = "linked"
    /\ ret' = ClockCbRate(s.src_hz, s.mult, s.div)
    /\ pc' = "computed"
    /\ UNCHANGED <<fdt, qom, s, cur>>

NextClockCb ==
    \/ SetSourceRate
    \/ ComputeRate

SpecClockCb == InitClockCb /\ [][NextClockCb]_vars

(***************************************************************************)
(* Specification SpecCodec: fdt_simple_addr_size on one node whose reg     *)
(* property encodes up to MaxEntries (address, size) pairs with the ac and *)
(* sc cells of the root, followed by up to MaxJunk further cells.  s holds *)
(* the pairs and the call's arguments, cur the entry index, ret the        *)
(* result of the call.                                                     *)
(***************************************************************************)
CodecCells == {1, MaxWord}

\* the values n cells can hold
CodecValues(n) ==
    IF n = 1 THEN CodecCells
    ELSE {(hi * Word) + lo : hi \in CodecCells, lo \in CodecCells}

\* the n big-endian cells of v
RECURSIVE EncodeCells(_, _)
EncodeCells(v, n) ==
    IF n = 0 THEN <<>>
    ELSE Append(EncodeCells(v \div Word, n - 1), v % Word)

RECURSIVE EncodePairs(_, _, _)
EncodePairs(pairs, ac, sc) ==
    IF pairs = <<>> THEN <<>>
    ELSE EncodeCells(Head(pairs).addr, ac) \o EncodeCells(Head(pairs).size, sc)
             \o EncodePairs(Tail(pairs), ac, sc)

CodecPairs(ac, sc) ==
    UNION {[1..n -> [addr : CodecValues(ac), size : CodecValues(sc)]] :
              n \in 0..MaxEntries}

CodecTree(ac, sc, reg) ==
    TreeOf(("#address-cells" :> <<ac>>) @@ ("#size-cells" :> <<sc>>),
           <<<<TopNode(N_u_1, "reg" :> reg)>>>>)

InitCodec ==
    /\ \E ac \in {1, 2}, sc \in {1, 2}, junk \in 0..MaxJunk,
          want_addr \in BOOLEAN, want_size \in BOOLEAN :
          \E pairs \in CodecPairs(ac, sc) :
             /\ s = [ac |-> ac, sc |-> sc, pairs |-> pairs, junk |-> junk,
                     want_addr |-> want_addr, want_size |-> want_size]
             /\ fdt = CodecTree(ac, sc, EncodePairs(pairs, ac, sc)
                                            \o [i \in 1..junk |-> 7])
    /\ qom = {}
    /\ cur \in 0..MaxEntries
    /\ pc = "encoded"
    /\ ret = NULL

\* fdt_simple_addr_size(fdt, node, idx, addrp, sizep) on the encoded node
Decode ==
    /\ pc = "encoded"
    /\ ret' = fdt_simple_addr_size(fdt, 1, cur, s.want_addr, s.want_size)
    /\ pc' = "decoded"
    /\ UNCHANGED <<fdt, qom, s, cur>>

NextCodec == Decode

SpecCodec == InitCodec /\ [][NextCodec]_vars

(***************************************************************************)
(* Specification SpecWidths: fdt_simple_addr_size on one node whose parent *)
(* carries #address-cells = ac and #size-cells = sc up to MaxNCells, and   *)
(* whose reg property holds a whole number of entries of ac + sc cells.    *)
(* s holds the widths, the number of entries and which outputs the caller  *)
(* passes; cur is the entry index.                                         *)
(***************************************************************************)
InitWidths ==
    /\ \E ac \in 1..MaxNCells, sc \in 0..MaxNCells, n \in 0..MaxEntries,
          want_addr \in BOOLEAN, want_size \in BOOLEAN :
          /\ s = [ac |-> ac, sc |-> sc, entries |-> n,
                  want_addr |-> want_addr, want_size |-> want_size]
          /\ fdt = CodecTree(ac, sc, [i \in 1..(n * (ac + sc)) |-> i])
    /\ qom = {}
    /\ cur \in 0..MaxEntries
    /\ pc = "encoded"
    /\ ret = NULL

SpecWidths == InitWidths /\ [][NextCodec]_vars

(***************************************************************************)
(* Specification SpecIntParent: mch_fdt_intc_get_parent_node on the nodes  *)
(* of a tree with a chain root, u, u@1 whose nodes each carry no           *)
(* interrupt-parent or one of ParentRefs, and two nodes with the phandles  *)
(* 1 and 2.  cur is the node asked for, ret the result of the call.        *)
(***************************************************************************)
\* no property (<<>>), or the cell of the property: 0, the phandles of the
\* tree and a phandle no node has
ParentRefs == {<<>>, <<0>>, <<1>>, <<2>>, <<9>>}

RefProp(ref) == IF ref = <<>> THEN <<>> ELSE "interrupt-parent" :> ref

IntParentTree(r0, r1, r2) ==
    TreeOf(RefProp(r0),
           <<<<TopNode(N_u, RefProp(r1)), SubNode(N_u_1, RefProp(r2))>>,
             <<TopNode(N_x, "phandle" :> <<1>>)>>,
             <<TopNode(N_i2c, "phandle" :> <<2>>)>>>>)

InitIntParent ==
    /\ \E r0 \in ParentRefs, r1 \in ParentRefs, r2 \in ParentRefs :
          fdt = IntParentTree(r0, r1, r2)
    /\ qom = {}
    /\ s = InitState
    /\ cur \in 0..4
    /\ pc = "asked"
    /\ ret = NULL

\* mch_fdt_intc_get_parent_node(fdt, node)
ResolveParent ==
    /\ pc = "asked"
    /\ ret' = mch_fdt_intc_get_parent_node(fdt, cur)
    /\ pc' = "resolved"
    /\ UNCHANGED <<fdt, qom, s, cur>>

NextIntParent == ResolveParent

SpecIntParent == InitIntParent /\ [][NextIntParent]_vars

(***************************************************************************)
(* Specification SpecMap: the two mapping routines called in any order on  *)
(* a small set of nodes and devices.                                       *)
(***************************************************************************)
\* a call returned r: the new state and the value returned
Returned(r) ==
    /\ s' = r.s
    /\ ret' = r.ret

InitMap ==
    /\ fdt = (0 :> RootNode)
    /\ qom = {}
    /\ s = InitState
    /\ pc = "idle"
    /\ cur = 0
    /\ ret = NULL

\* mch_fdt_dev_add_mapping(s, dev, node)
Record ==
    /\ Len(s.dev_map) < MaxRecords
    /\ \E node \in 1..MaxMapNodes, dev \in 0..MaxMapDevs :
          /\ s' = mch_fdt_dev_add_mapping(s, dev, node)
          /\ cur' = node
    /\ pc' = "recorded"
    /\ ret' = 0
    /\ UNCHANGED <<fdt, qom>>

\* info = mch_fdt_dev_find_mapping(s, node)
Lookup ==
    /\ \E node \in 1..MaxMapNodes :
          /\ ret' = mch_fdt_dev_find_mapping(s, node)
          /\ cur' = node
    /\ pc' = "looked"
    /\ UNCHANGED <<fdt, qom, s>>

NextMap == Record \/ Lookup

SpecMap == InitMap /\ [][NextMap]_vars

(***************************************************************************)
(* Specification SpecClassify: mch_fdt_add_device_node applied to node 1   *)
(* of a tree drawn from every combination of the properties the classifier *)
(* looks at, with and without an existing mapping for the node.            *)
(***************************************************************************)
PropIf(b, name, val) == IF b THEN name :> val ELSE <<>>

DevTypePool == {<<>>, N_pci, N_pcie, N_soc, N_cpu}

ClassifyCompatPool ==
    {<<N_u>>, <<N_v_i2c>>, <<N_v_spi>>, <<N_v_spi, N_v_i2c>>, <<N_u, N_v_i2c>>}

ClassifyNamePool == {N_u_1, N_i2c_1, N_spi_1, N_i2c_spi}

ClassifyTypes == {N_u, N_i2c, N_spi}

ClassifyNode(name, compat, dt, clk, ranges, gpio, intc) ==
    [parent |-> 0, name |-> name,
     props  |-> ("compatible" :> compat)
                @@ PropIf(dt # <<>>, "device_type", dt)
                @@ PropIf(clk, "#clock-cells", <<0>>)
                @@ PropIf(ranges, "ranges", <<>>)
                @@ PropIf(gpio, "gpio-controller", <<>>)
                @@ PropIf(intc, "interrupt-controller", <<>>)]

ChildNode(parent) ==
    [parent |-> parent, name |-> N_u,
     props |-> ("compatible" :> <<N_u>>) @@ ("reg" :> <<1, 1, 1>>)]

ClassifyTree(n1, child) ==
    IF child
    THEN (0 :> RootNode) @@ (1 :> n1) @@ (2 :> ChildNode(1))
    ELSE (0 :> RootNode) @@ (1 :> n1)

\* the state in which node 1 has, or has not, been mapped by an earlier call
ClassifyState(mapped) ==
    IF mapped
    THEN mch_fdt_dev_add_mapping(
             [InitState EXCEPT !.qdev = <<NewDevice(N_u, 1)>>], 1, 1)
    ELSE InitState

InitClassify ==
    /\ \E name \in ClassifyNamePool, compat \in ClassifyCompatPool,
          dt \in DevTypePool, clk \in BOOLEAN, ranges \in BOOLEAN,
          gpio \in BOOLEAN, intc \in BOOLEAN, child \in BOOLEAN :
          fdt = ClassifyTree(
                    ClassifyNode(name, compat, dt, clk, ranges, gpio, intc),
                    child)
    /\ qom \in {{}, ClassifyTypes}
    /\ \E mapped \in BOOLEAN : s = ClassifyState(mapped)
    /\ pc = "call"
    /\ cur = 1
    /\ ret = NULL

AddDeviceNode ==
    /\ pc = "call"
    /\ \E ub \in UBOutcomes :
          Returned(mch_fdt_add_device_node(s, fdt, qom, cur, ub))
    /\ pc' = "returned"
    /\ UNCHANGED <<fdt, qom, cur>>

NextClassify == AddDeviceNode

SpecClassify == InitClassify /\ [][NextClassify]_vars

(***************************************************************************)
(* Specification SpecCompat: try_create_fdt_device applied to one node     *)
(* whose compatible list is drawn from CompatPool, under every registry.   *)
(***************************************************************************)
CompatPool ==
    {N_v_a_b, N_a_b, N_a__b, N_v_pl050, N_pl050k, N_v_w_u, N_u, N_v_pl080}

TypePool == {N_a_b, N_a__b, N_pl050, N_pl050k, N_w_u, N_u, N_pl080}

CompatLists == UNION {[1..n -> CompatPool] : n \in 0..MaxCompat}

OneNodeTree(compat) ==
    (0 :> RootNode) @@
    (1 :> [parent |-> 0, name |-> N_u, props |-> ("compatible" :> compat)])

InitCompat ==
    /\ \E compat \in CompatLists : fdt = OneNodeTree(compat)
    /\ qom \in SUBSET TypePool
    /\ s = InitState
    /\ pc = "call"
    /\ cur = 1
    /\ ret = NULL

TryCreate ==
    /\ pc = "call"
    /\ Returned(try_create_fdt_device(s, fdt, qom, cur))
    /\ pc' = "returned"
    /\ UNCHANGED <<fdt, qom, cur>>

NextCompat == TryCreate

SpecCompat == InitCompat /\ [][NextCompat]_vars

(***************************************************************************)
(* Claims about try_create_fdt_device, stated over the candidate list.     *)
(***************************************************************************)
Candidates == fdt_getprop(fdt, cur, "compatible")
Stripped(i) == strip_compat_string(Candidates[i])
Underscored(i) == subst_compat_string(Stripped(i), "-", "_")
BeginsWithExcluded(name) ==
    \E b \in Blocklist : Len(name) >= Len(b) /\ SubSeq(name, 1, Len(b)) = b
Creatable(i) ==
    /\ ~BeginsWithExcluded(Stripped(i))
    /\ (Stripped(i) \in qom \/ Underscored(i) \in qom)
\* the candidates the loop gets to: no earlier candidate was creatable
Reached(i) == \A j \in 1..(i - 1) : ~Creatable(j)
Tried == {s.tried[k] : k \in 1..Len(s.tried)}

\* C6: try_create_fdt_device returns the one device it created, of the
\* earliest candidate (vendor prefix stripped, excluded names skipped) that
\* has a device type under its exact name or else under its underscore form,
\* the exact name taking precedence; it returns NULL and creates nothing
\* exactly when no candidate has either form.
C6_FirstCreatableCandidateWins ==
    pc = "returned" =>
        IF \E i \in 1..Len(Candidates) : Creatable(i)
        THEN LET i == CHOOSE k \in 1..Len(Candidates) :
                         Creatable(k) /\ Reached(k)
             IN  /\ ret # NULL
                 /\ Len(s.qdev) = 1
                 /\ ret = 1
                 /\ s.qdev[ret].node = cur
                 /\ s.qdev[ret].type =
                        IF Stripped(i) \in qom THEN Stripped(i)
                                               ELSE Underscored(i)
        ELSE ret = NULL /\ s.qdev = <<>>

\* C6 witness: "v,a-b" with only "a_b" registered yields the a_b device
C6_Witness ==
    /\ pc = "returned"
    /\ Candidates = <<N_v_a_b>>
    /\ qom = {N_a__b}
    /\ ret # NULL
    /\ s.qdev[ret].type = N_a__b

\* C7 (as amended): a candidate the loop gets to is skipped without any
\* creation attempt if and only if its vendor-stripped name begins with a
\* name of the exclusion list, and a skipped candidate does not stop the
\* later candidates from being tried.
C7_SkippedIffBeginsWithExcluded ==
    pc = "returned" =>
        \A i \in 1..Len(Candidates) :
            Reached(i) =>
                /\ BeginsWithExcluded(Stripped(i)) =>
                        Stripped(i) \notin Tried /\ Underscored(i) \notin Tried
                /\ ~BeginsWithExcluded(Stripped(i)) => Stripped(i) \in Tried

\* C7 witness: an excluded first candidate is skipped and the second one
\* is created
C7_Witness ==
    /\ pc = "returned"
    /\ Candidates = <<N_v_pl050, N_u>>
    /\ N_u \in qom
    /\ s.tried = <<N_u>>
    /\ ret # NULL

\* C7 (as claimed): a candidate the loop gets to is skipped without any
\* creation attempt if and only if its vendor-stripped name is a name of
\* the exclusion list.
C7_SkippedIffOnExclusionList ==
    pc = "returned" =>
        \A i \in 1..Len(Candidates) :
            Reached(i) =>
                (Stripped(i) \notin Tried <=> Stripped(i) \in Blocklist)

(***************************************************************************)
(* The mapping routines (SpecMap).                                         *)
(***************************************************************************)
EntriesFor(st, node) == {i \in 1..Len(st.dev_map) : st.dev_map[i].offset = node}

\* the device first recorded for a node
FirstRecorded(st, node) ==
    st.dev_map[CHOOSE i \in EntriesFor(st, node) :
                   \A j \in EntriesFor(st, node) : i <= j].dev

\* C3: after record(n, e) lookup(n) returns e, and a second record(n, e2) for
\* a recorded node is rejected or changes nothing: the table holds exactly
\* one entry for every recorded node and lookup returns the device first
\* recorded for it.
C3_SecondRecordRejected ==
    /\ \A node \in 1..MaxMapNodes : Cardinality(EntriesFor(s, node)) <= 1
    /\ (pc = "looked" /\ EntriesFor(s, cur) # {})
          => /\ ret # NULL
             /\ s.dev_map[ret].dev = FirstRecorded(s, cur)

(***************************************************************************)
(* The classifier (SpecClassify).                                          *)
(***************************************************************************)
CompatMatches(t, node, bus) ==
    /\ strstr(fdt_get_name(t, node), bus)
    /\ \E i \in 1..Len(fdt_getprop(t, node, "compatible")) :
          strstr(fdt_getprop(t, node, "compatible")[i], bus)

DevTypeBegins(t, node, prefix) ==
    /\ HasProp(t, node, "device_type")
    /\ Take(fdt_getprop(t, node, "device_type"), Len(prefix)) = prefix

DevTypeIs(t, node, name) ==
    /\ HasProp(t, node, "device_type")
    /\ fdt_getprop(t, node, "device_type") = name

\* the rules of the decision order, rule 3 given as a parameter
RuleHolds(k, t, node, mapped, rule3) ==
    CASE k = 1 -> mapped
      [] k = 2 -> HasProp(t, node, "#clock-cells")
      [] k = 3 -> rule3
      [] k = 4 -> Subnodes(t, node) # {} /\ HasProp(t, node, "ranges")
      [] k = 5 -> /\ Subnodes(t, node) # {}
                  /\ (CompatMatches(t, node, N_i2c)
                        \/ CompatMatches(t, node, N_spi))
      [] k = 6 -> HasProp(t, node, "gpio-controller")
      [] k = 7 -> HasProp(t, node, "interrupt-controller")
      [] OTHER -> TRUE

FirstRule(t, node, mapped, rule3) ==
    CHOOSE k \in 1..8 :
        /\ RuleHolds(k, t, node, mapped, rule3)
        /\ \A j \in 1..(k - 1) : ~RuleHolds(j, t, node, mapped, rule3)

\* the routines a rule hands the node to
RoutinesOf(k, t, node) ==
    CASE k = 1 -> {"mapped"}
      [] k = 2 -> {"clock"}
      [] k = 3 -> IF DevTypeBegins(t, node, N_pci) THEN {"pci_bus"}
                  ELSE {"generic_bus"}
      [] k = 4 -> {"generic_bus"}
      [] k = 5 -> {r \in {"i2c_bus", "spi_bus"} :
                      \/ r = "i2c_bus" /\ CompatMatches(t, node, N_i2c)
                      \/ r = "spi_bus" /\ CompatMatches(t, node, N_spi)}
      [] k = 6 -> {"gpio_controller"}
      [] k = 7 -> {"intr_controller"}
      [] OTHER -> {"simple_device"}

\* a step of the classifier hands the node to a routine of the first rule
\* that matches in the state the classifier is called in
ChosenByFirstRule(rule3) ==
    (pc = "call" /\ pc' = "returned") =>
        /\ Len(s'.calls) = Len(s.calls) + 1
        /\ s'.calls[Len(s'.calls)].node = cur
        /\ s'.calls[Len(s'.calls)].routine
               \in RoutinesOf(FirstRule(fdt, cur,
                                        mch_fdt_dev_find_mapping(s, cur) # NULL,
                                        rule3),
                              fdt, cur)
        /\ s'.calls[Len(s'.calls)].routine \in {"clock", "mapped"}
               => (s'.tried = s.tried /\ s'.qdev = s.qdev)
        /\ s'.calls[Len(s'.calls)].routine = "clock" => ret' = NULL

\* C4: the routine chosen by mch_fdt_add_device_node is that of the first
\* matching rule in the order: already mapped, clock node, device_type
\* beginning with "pci" or "soc", children plus ranges, children plus
\* i2c/spi match, GPIO controller, interrupt controller, simple device; a
\* clock node and a mapped node cause no creation attempt.
C4_FirstMatchingRuleWins ==
    [][ChosenByFirstRule(DevTypeBegins(fdt, cur, N_pci)
                           \/ DevTypeBegins(fdt, cur, N_soc))]_vars

C4_Witness ==
    /\ pc = "returned"
    /\ DevTypeIs(fdt, cur, N_soc)
    /\ Subnodes(fdt, cur) # {}
    /\ HasProp(fdt, cur, "ranges")
    /\ HasProp(fdt, cur, "gpio-controller")
    /\ HasProp(fdt, cur, "interrupt-controller")
    /\ s.calls = <<[routine |-> "generic_bus", node |-> cur]>>

\* C4 as stated: rule 3 applies when device_type is "pci" or "soc".
C4_FirstMatchingRuleWins_ExactDevType ==
    [][ChosenByFirstRule(DevTypeIs(fdt, cur, N_pci)
                           \/ DevTypeIs(fdt, cur, N_soc))]_vars

\* C5: a node with both the gpio-controller and the interrupt-controller
\* flag that no earlier rule matches is handed to the GPIO-controller
\* routine and never to the interrupt-controller routine.
C5_GpioBeforeInterruptController ==
    [][(/\ pc = "call" /\ pc' = "returned"
        /\ HasProp(fdt, cur, "gpio-controller")
        /\ HasProp(fdt, cur, "interrupt-controller")
        /\ FirstRule(fdt, cur, mch_fdt_dev_find_mapping(s, cur) # NULL,
                     DevTypeBegins(fdt, cur, N_pci)
                       \/ DevTypeBegins(fdt, cur, N_soc)) >= 6)
       => /\ \E i \in 1..Len(s'.calls) :
                s'.calls[i] = [routine |-> "gpio_controller", node |-> cur]
          /\ \A i \in 1..Len(s'.calls) :
                s'.calls[i] # [routine |-> "intr_controller", node |-> cur]]_vars

C5_Witness ==
    /\ pc = "returned"
    /\ HasProp(fdt, cur, "gpio-controller")
    /\ HasProp(fdt, cur, "interrupt-controller")
    /\ s.calls = <<[routine |-> "gpio_controller", node |-> cur]>>
    /\ ret # NULL
    /\ Len(s.dev_map) = 1


(***************************************************************************)
(* The build: the mapping table during the scan (C1, C2).                  *)
(***************************************************************************)
\* the stage of the build has completed
StageDone(name) == \E i \in 1..Len(s.trace) : s.trace[i] = name

\* the node the next call of mch_fdt_scan_node is for
ScanNext == ScanOrder(fdt)[cur]

\* a step of the scan on a node that already has an entry creates nothing,
\* tries nothing and records nothing, and reports the existing entry
RevisitKeepsEntry ==
    (pc = "scan" /\ EntriesFor(s, ScanNext) # {})
        => /\ s'.qdev = s.qdev
           /\ s'.tried = s.tried
           /\ s'.dev_map = s.dev_map
           /\ fdt_stringlist_count(fdt, ScanNext, "compatible") > 0
                 => s'.calls = Append(s.calls, [routine |-> "mapped",
                                                node |-> ScanNext])

\* C1: in every state of a build the mapping table holds at most one entry
\* per node, and a step of the scan that re-visits a node with an entry
\* (a child an I2C bus recorded) returns that entry and creates no device.
C1_AtMostOneEntryPerNode ==
    /\ [](\A node \in NodesOf(fdt) : Cardinality(EntriesFor(s, node)) <= 1)
    /\ [][RevisitKeepsEntry]_vars

\* the scan re-visited the child of an I2C bus whose entry holds a device
C1_Witness ==
    \E i \in 1..Len(s.calls) :
        /\ s.calls[i].routine = "mapped"
        /\ \E e \in EntriesFor(s, s.calls[i].node) : s.dev_map[e].dev # NULL

\* C2: once the scan has completed, every scanned node with a non-empty
\* compatible list has exactly one entry in the mapping table.
C2_EveryClassifiedNodeHasOneEntry ==
    StageDone("scan")
        => \A i \in 1..Len(s.visited) :
               fdt_stringlist_count(fdt, s.visited[i], "compatible") > 0
                   => Cardinality(EntriesFor(s, s.visited[i])) = 1

(***************************************************************************)
(* The build: the order of the stages (C8).                                *)
(***************************************************************************)
\* a derived clock has its source, or a device a clock input connected
ClockLinked ==
    \/ \E c \in 1..Len(s.clocks) : s.clocks[c].source # 0
    \/ \E d \in 1..Len(s.qdev) : s.qdev[d].clocks # <<>>

\* the position of a stage in the build
Rank(name) ==
    CASE name = "cpus"   -> 1
      [] name = "memory" -> 2
      [] name = "clocks" -> 3
      [] name = "scan"   -> 4
      [] name = "intc0"  -> 5
      [] name = "intc"   -> 6
      [] name = "gpio"   -> 7

StagesInOrder ==
    \A i, j \in 1..Len(s.trace) : i < j => Rank(s.trace[i]) < Rank(s.trace[j])

\* the interrupt and GPIO passes run after the scan visited every node that
\* is not in the CPU or memory subtree
PassesAfterScan ==
    (StageDone("intc0") \/ StageDone("intc") \/ StageDone("gpio"))
        => StageDone("scan") /\ s.visited = ScanOrder(fdt)

\* the routine the classifier handed the node to connects clocks
LinksClocks(node) ==
    \E i \in 1..Len(s.calls) :
        /\ s.calls[i].node = node
        /\ s.calls[i].routine
             \in {"simple_device", "intr_controller", "gpio_controller"}

\* a device of such a routine is realized with one clock input connected
\* per entry of its node's "clocks"
ClocksBeforeRealize ==
    \A d \in 1..Len(s.qdev) :
        (s.qdev[d].realized /\ LinksClocks(s.qdev[d].node)
           /\ HasProp(fdt, s.qdev[d].node, "clocks"))
            => Len(s.qdev[d].clocks)
                 = Len(fdt_getprop(fdt, s.qdev[d].node, "clocks"))

\* the clocks and their sources change in mch_fdt_init_clocks only
SourcesSetByInitClocks == s'.clocks # s.clocks => pc = "clocks"

\* the clock inputs of the devices change during the scan only
InputsConnectedByScan ==
    (\E d \in 1..Len(s'.qdev) :
        IF d <= Len(s.qdev) THEN s'.qdev[d].clocks # s.qdev[d].clocks
        ELSE s'.qdev[d].clocks # <<>>)
        => pc = "scan"

RootIntcInstantiated ==
    /\ HasProp(fdt, 0, "interrupt-parent")
    /\ \E e \in EntriesFor(s, fdt_node_offset_by_phandle(
                                  fdt, FirstCell(fdt, 0, "interrupt-parent"))) :
          s.dev_map[e].dev # NULL

\* C9: the build gets past phase 0 only when the root's interrupt-parent
\* resolves to a node whose entry holds a device, and no interrupt line is
\* ever wired on an entry without a device.
C9_FatalUnlessRootControllerInstantiated ==
    /\ StageDone("intc0") => RootIntcInstantiated
    /\ \A i \in 1..Len(s.wired) : s.wired[i].dev # NULL

\* the nodes with "interrupts" whose interrupt parent is the controller
ConsumersOf(t, node) ==
    {o \in NodesOf(t) :
        /\ HasProp(t, o, "interrupts")
        /\ ~mch_fdt_intc_get_parent_node(t, o).hang
        /\ mch_fdt_intc_get_parent_node(t, o).node = node}

\* the line indices of all the specifiers of a consumer's "interrupts"
SpecifierLines(t, o, cells) ==
    {fdt_getprop(t, o, "interrupts")[k * cells + IrqCell(cells) + 1] :
        k \in 0..((Len(fdt_getprop(t, o, "interrupts")) \div cells) - 1)}

\* 1 plus the highest line index any specifier of any consumer refers to
RequiredLines(t, node) ==
    LET cells == Max(CellOr(t, node, "#interrupt-cells", 1), 1)
        lines == UNION {SpecifierLines(t, o, cells) : o \in ConsumersOf(t, node)}
    IN  IF lines = {} THEN 0
        ELSE 1 + (CHOOSE m \in lines : \A l \in lines : l <= m)

\* C10: after the sizing of a live controller its line count is 1 plus the
\* highest line index of all the specifiers of all its consumers, 0 when it
\* has none.
C10_LineCountCoversEverySpecifier ==
    pc = "intc_connect"
        => \A e \in EntriesFor(s, IntcNodes(fdt)[cur]) :
               s.dev_map[e].num_irqs = RequiredLines(fdt, IntcNodes(fdt)[cur])


(***************************************************************************)
(* The build: the connections of the interrupt tree (C11).                 *)
(***************************************************************************)
\* the devices created for a node
DevicesOf(node) == {d \in 1..Len(s.qdev) : s.qdev[d].node = node}

\* the connections the interrupt pass made to the input lines of devices
DeviceWires == {i \in 1..Len(s.wired) : s.wired[i].to.kind = "dev"}

\* the connection is from output 0 of the device of a consumer of the
\* controller it leads to, at the first index the consumer declares
FromConsumer(w) ==
    \E N \in ConsumersOf(fdt, s.qdev[w.to.id].node) :
        /\ w.dev \in DevicesOf(N)
        /\ w.n = 0
        /\ w.to.line = fdt_getprop(fdt, N, "interrupts")[1]

\* C11: every connection of the connection phase leads from output 0 of a
\* consumer's own device to the controller's line at the consumer's index,
\* and once the pass is over every consumer with a device has its
\* connection.
C11_ConsumerWiredToController ==
    /\ \A i \in DeviceWires : FromConsumer(s.wired[i])
    /\ StageDone("intc")
          => \A C \in NodesOf(fdt) : \A N \in ConsumersOf(fdt, C) :
                 (IsLive(s, C) /\ HasProp(fdt, C, "interrupt-controller"))
                     => \A d \in DevicesOf(N) :
                            \E i \in DeviceWires : s.wired[i].dev = d


(***************************************************************************)
(* The build: the end-to-end scenario (C12).  The tree has the CPU node,   *)
(* the memory node, the UART K_uart and the controller K_intc; in the      *)
(* model's cells the memory is 256 units at address 0 and the UART's       *)
(* registers are at address 16.                                            *)
(***************************************************************************)
E2ETree ==
    TreeOf("interrupt-parent" :> <<1>>, <<K_cpus, K_memory, K_uart, K_intc>>)

\* the nodes of the UART and of the controller in E2ETree
E2EUart == Len(K_cpus \o K_memory) + 1
E2EGic == E2EUart + Len(K_uart)

\* C12: the build of the scenario tree yields one CPU, one memory region of
\* 256 units at address 0, the UART mapped at its address, a controller
\* with at least 6 input lines, and output 0 of the UART's device connected
\* to line 5 of the controller.
C12_EndToEndScenario ==
    (fdt = E2ETree /\ StageDone("gpio"))
        => /\ Len(s.cpu) = 1
           /\ s.ram = <<[addr |-> 0, size |-> 256]>>
           /\ \E d \in DevicesOf(E2EUart) :
                 s.qdev[d].realized /\ s.qdev[d].mmio = <<16>>
           /\ \E e \in EntriesFor(s, E2EGic) :
                 s.dev_map[e].dev # NULL /\ s.dev_map[e].irqs >= 6
           /\ \E d \in DevicesOf(E2EUart), g \in DevicesOf(E2EGic) :
                 \E i \in DeviceWires :
                     s.wired[i] = [dev |-> d, n |-> 0,
                                   to |-> [kind |-> "dev", id |-> g,
                                           line |-> 5]]


(***************************************************************************)
(* The build: the cell of "interrupts" that is honoured (C13).             *)
(***************************************************************************)
\* the index in a consumer's "interrupts" of the cell that holds the line:
\* the second cell when the controller's width is 3, else the first
LineCell(C) == IF CellOr(fdt, C, "#interrupt-cells", 0) = 3 THEN 1 ELSE 0

\* every consumer of the controller has that cell
AllReadable(C, cell) ==
    \A N \in ConsumersOf(fdt, C) : Len(fdt_getprop(fdt, N, "interrupts")) > cell

\* the lines the consumers of the controller declare in that cell
LinesAt(C, cell) ==
    {fdt_getprop(fdt, N, "interrupts")[cell + 1] : N \in ConsumersOf(fdt, C)}

\* 1 plus the highest of the lines, 0 without lines
CountFor(lines) ==
    IF lines = {} THEN 0 ELSE 1 + (CHOOSE m \in lines : \A l \in lines : l <= m)

\* sizing and connection of the controllers use the given cell and no other
HonouredCell(cell(_)) ==
    /\ pc = "intc_connect"
          => \A e \in EntriesFor(s, IntcNodes(fdt)[cur]) :
                 AllReadable(IntcNodes(fdt)[cur], cell(IntcNodes(fdt)[cur]))
                     => s.dev_map[e].num_irqs
                          = CountFor(LinesAt(IntcNodes(fdt)[cur],
                                             cell(IntcNodes(fdt)[cur])))
    /\ \A i \in DeviceWires :
          AllReadable(s.qdev[s.wired[i].to.id].node,
                      cell(s.qdev[s.wired[i].to.id].node))
              => s.wired[i].to.line
                   \in LinesAt(s.qdev[s.wired[i].to.id].node,
                               cell(s.qdev[s.wired[i].to.id].node))

\* C13 (as amended): with #interrupt-cells = 3 the line of a consumer is the
\* second cell of its "interrupts", with any other width the first cell;
\* no other cell influences the sizing or the connections.
C13_SecondCellOfThreeHonoured == HonouredCell(LineCell)

\* a connection to line 7 of a controller of width 3, for the consumer with
\* interrupts = <2 7 4>
C13_Witness ==
    \E i \in DeviceWires :
        /\ CellOr(fdt, s.qdev[s.wired[i].to.id].node, "#interrupt-cells", 0) = 3
        /\ s.wired[i].to.line = 7

\* the first cell of "interrupts", whatever the width
FirstCellOfGroup(C) == 0

\* C13 as stated: with #interrupt-cells = 3 the first cell of the group is
\* the line.
C13_FirstCellOfThreeHonoured == HonouredCell(FirstCellOfGroup)


(***************************************************************************)
(* Sizing twice (C14).                                                     *)
(***************************************************************************)
\* C14: a second run of the sizing loop for a controller, over the same
\* tree and mapping table, leaves the line count the first run recorded.
C14_SizingIdempotent == pc = "done" => s.dev_map[1].num_irqs = ret


(***************************************************************************)
(* The build: the GPIO pass (C15, C16).                                    *)
(***************************************************************************)
\* the rows of the "gpios" of node N, read with the width of controller G,
\* whose phandle resolves to G
RowsFor(G, N) ==
    {row \in 0..Len(fdt_getprop(fdt, N, "gpios")) :
        /\ ArrayCellOk(fdt, N, "gpios", CellOr(fdt, G, "#gpio-cells", 0), row, 1)
        /\ fdt_node_offset_by_phandle(
               fdt, ArrayCell(fdt, N, "gpios", CellOr(fdt, G, "#gpio-cells", 0),
                              row, 0, 0)) = G}

\* the line of controller G that a row of the "gpios" of N names
LineOfRow(G, N, row) ==
    ArrayCell(fdt, N, "gpios", CellOr(fdt, G, "#gpio-cells", 0), row, 1, 0)

\* the live GPIO controllers
LiveGpioControllers ==
    {G \in NodesOf(fdt) : HasProp(fdt, G, "gpio-controller") /\ IsLive(s, G)}

\* the nodes with "gpios"
GpioUsers == {N \in NodesOf(fdt) : HasProp(fdt, N, "gpios")}

\* C15: after the GPIO pass, each entry of a consumer's "gpios" that names
\* a live controller G has a connection from the named output line of G's
\* device to an input line of the consumer's own device, and every
\* connection of the pass is such a connection.
C15_GpioEntriesConnected ==
    StageDone("gpio")
        => /\ \A G \in LiveGpioControllers, N \in GpioUsers :
                 \A d \in DevicesOf(N), row \in RowsFor(G, N) :
                     \E i \in 1..Len(s.gpio) :
                         /\ s.gpio[i].dev \in DevicesOf(G)
                         /\ s.gpio[i].line = LineOfRow(G, N, row)
                         /\ s.gpio[i].to_dev = d
           /\ \A i \in 1..Len(s.gpio) :
                 \E G \in LiveGpioControllers, N \in GpioUsers :
                     /\ s.gpio[i].dev \in DevicesOf(G)
                     /\ s.gpio[i].to_dev \in DevicesOf(N)
                     /\ \E row \in RowsFor(G, N) :
                           s.gpio[i].line = LineOfRow(G, N, row)

\* C16: the GPIO pass makes connections only from controllers and for
\* consumers whose mapping entry holds a device, and does not fail.
C16_UnmappedGpioNodesSkipped ==
    /\ \A i \in 1..Len(s.gpio) :
          /\ \E G \in LiveGpioControllers : s.gpio[i].dev \in DevicesOf(G)
          /\ IsLive(s, s.gpio[i].offset)
    /\ StageDone("gpio") => s.halt \in {"", "completed"}


(***************************************************************************)
(* The callback of a derived clock (C17, C18).                             *)
(***************************************************************************)
\* C17: after every change of the source's rate the callback has left the
\* derived clock at the source's rate times mult over div, for a non-zero
\* div whose product fits, and the program runs on.
C17_DerivedFollowsSource ==
    (cur > 0 /\ s.div # 0 /\ s.src_hz * s.mult < FreqWord)
        => /\ s.halt = ""
           /\ s.hz = (s.src_hz * s.mult) \div s.div

\* C18: for a non-zero divisor the callback divides first exactly when the
\* product of rate and multiplier does not fit.
C18_DivideFirstIffProductWraps ==
    (pc = "computed" /\ s.div # 0)
        => (ret.order = "div_first" <=> s.src_hz * s.mult >= FreqWord)


(***************************************************************************)
(* The cell codec (C19, C20).                                              *)
(***************************************************************************)
\* the reg property of SpecCodec holds only whole entries
WholeEntries == (s.junk % (s.ac + s.sc)) = 0

\* the number of whole entries in the property
EntryCount == Len(s.pairs) + (s.junk \div (s.ac + s.sc))

\* C19: on a property made of encoded pairs only, the call for an index
\* below the number of pairs succeeds and writes the address and the size
\* of that pair to the outputs asked for.
C19_DecodeReturnsEncodedPair ==
    (pc = "decoded" /\ s.junk = 0 /\ cur < Len(s.pairs))
        => /\ ret.rc = 0
           /\ ret.wrote_addr = s.want_addr
           /\ ret.wrote_size = s.want_size
           /\ s.want_addr => ret.addr = s.pairs[cur + 1].addr
           /\ s.want_size => ret.size = s.pairs[cur + 1].size

C19_Witness ==
    /\ pc = "decoded"
    /\ s.junk = 0
    /\ s.ac = 2 /\ s.sc = 2
    /\ cur = 1 /\ Len(s.pairs) = 2
    /\ s.want_addr /\ s.want_size
    /\ ret.rc = 0
    /\ ret.addr = (MaxWord * Word) + 1
    /\ ret.size = Word + MaxWord

\* C20: the call fails with BadValue for every index when the property is
\* not a whole number of entries, and with NotFound only when it is one
\* and the index is not below the number of entries.
C20_BadValueBeforeIndex ==
    pc = "decoded"
        => /\ ~WholeEntries => ret.rc = -FDT_ERR_BADVALUE
           /\ ret.rc = -FDT_ERR_NOTFOUND
                  => (WholeEntries /\ cur >= EntryCount)


(***************************************************************************)
(* Unsupported widths and the outputs of a failed call (C21, C30).         *)
(***************************************************************************)
\* C21: with an address or size width above 2 the call for an entry of the
\* property returns BadCellCount, whichever outputs the caller passes.
C21_WideCellsRejected ==
    (pc = "decoded" /\ (s.ac > 2 \/ s.sc > 2) /\ cur < s.entries)
        => ret.rc = -FDT_ERR_BADNCELLS

\* C30: a call that returns an error has written neither output.
C30_FailedCallWritesNothing ==
    (pc = "decoded" /\ ret.rc < 0)
        => (~ret.wrote_addr /\ ~ret.wrote_size)


(***************************************************************************)
(* The memory stage (C22).                                                 *)
(***************************************************************************)
\* the first reg entry of the root's memory node cannot be decoded (or the
\* node is missing)
MemoryUndecodable ==
    fdt_simple_addr_size(fdt, fdt_subnode_offset(fdt, 0, N_memory), 0,
                         TRUE, TRUE).rc < 0

\* C22: without a decodable memory node the build never gets past the
\* memory stage: no RAM region is registered, the clocks are not initialised
\* and the scan does not start.
C22_FatalWithoutMemory ==
    MemoryUndecodable
        => /\ s.ram = <<>>
           /\ ~StageDone("memory")
           /\ ~StageDone("clocks")
           /\ ~StageDone("scan")


(***************************************************************************)
(* Nodes for which no device could be created (C23).                       *)
(***************************************************************************)
\* no device of st was created for node n
NoDeviceFor(st, n) == \A i \in 1..Len(st.qdev) : st.qdev[i].node # n

\* the scanned nodes with candidates, other than clock nodes, that got no
\* device
FailedNodes ==
    {n \in NodesOf(fdt) :
        /\ \E i \in 1..Len(s.visited) : s.visited[i] = n
        /\ fdt_stringlist_count(fdt, n, "compatible") > 0
        /\ ~HasProp(fdt, n, "#clock-cells")
        /\ NoDeviceFor(s, n)}

\* a step of the scan on a node with candidates that leaves it without device
ScanStepFails ==
    /\ pc = "scan"
    /\ fdt_stringlist_count(fdt, ScanNext, "compatible") > 0
    /\ ~HasProp(fdt, ScanNext, "#clock-cells")
    /\ NoDeviceFor(s', ScanNext)

\* every node with "interrupts" resolves its interrupt parent and holds the
\* cell its controller reads
InterruptsReadable ==
    /\ \A o \in NodesOf(fdt) :
          HasProp(fdt, o, "interrupts")
              => ~mch_fdt_intc_get_parent_node(fdt, o).hang
    /\ \A C \in NodesOf(fdt) :
          HasProp(fdt, C, "interrupt-controller") => AllReadable(C, LineCell(C))

\* the scan goes on after such a step
ScanGoesOn ==
    ScanStepFails
        => /\ s'.halt = ""
           /\ pc' \in {"scan", "intc0"}
           /\ pc' = "scan" => cur' = cur + 1
           /\ \E i \in 1..Len(s'.visited) : s'.visited[i] = ScanNext

RECURSIVE PathOf(_, _)
PathOf(t, n) ==
    IF t[n].parent < 0 THEN {n} ELSE {n} \cup PathOf(t, t[n].parent)

\* the nodes of the path that carry an interrupt-parent
Carriers(t, n) == {c \in PathOf(t, n) : HasProp(t, c, "interrupt-parent")}

\* the carrier nearest to n: the one every other carrier is an ancestor of
Nearest(t, n) ==
    CHOOSE c \in Carriers(t, n) : Carriers(t, n) \subseteq PathOf(t, c)

\* C24: a call that returns gives the node the phandle of the nearest
\* carrier refers to, and NotFound when the path has no carrier.
C24_ParentIsNearestReference ==
    (pc = "resolved" /\ ~ret.hang)
        => ret.node = IF Carriers(fdt, cur) = {} THEN -FDT_ERR_NOTFOUND
                      ELSE fdt_node_offset_by_phandle(
                               fdt, FirstCell(fdt, Nearest(fdt, cur),
                                              "interrupt-parent"))

\* a node two levels below the carrier inherits its reference
C24_Witness ==
    /\ pc = "resolved"
    /\ ~ret.hang
    /\ cur = 2
    /\ Carriers(fdt, cur) = {0}
    /\ ret.node = 4

\* C28: every call returns.
C28_ParentLookupTerminates ==
    pc = "resolved" => ~ret.hang


(***************************************************************************)
(* Phase 0 of the interrupt builder (C25).                                 *)
(***************************************************************************)
\* the device of the root's interrupt parent
RootIntcDev ==
    s.dev_map[mch_fdt_dev_find_mapping(
                  s, fdt_node_offset_by_phandle(
                         fdt, FirstCell(fdt, 0, "interrupt-parent")))].dev

\* the connections to CPU lines
CpuWires == {i \in 1..Len(s.wired) : s.wired[i].to.kind = "cpu"}

\* C25: once phase 0 is done, with k the line count of the architecture
\* hook, the array of CPU lines has num_cpus * k entries, the connections to
\* CPU lines are the first num_cpus * k connections made, and the one at
\* index c * k + i joins output c * k + i of the root controller to line i
\* of CPU c.
C25_CpuLinesWiredInOrder ==
    StageDone("intc0")
        => /\ Len(s.cpu_irqs) = s.num_cpus * s.mch.arch_irqs
           /\ CpuWires = 1..(s.num_cpus * s.mch.arch_irqs)
           /\ \A c \in 0..(s.num_cpus - 1), i \in 0..(s.mch.arch_irqs - 1) :
                 s.wired[(c * s.mch.arch_irqs) + i + 1]
                     = [dev |-> RootIntcDev, n |-> (c * s.mch.arch_irqs) + i,
                        to |-> [kind |-> "cpu", id |-> c, line |-> i]]

C25_Witness ==
    /\ StageDone("intc0")
    /\ s.num_cpus = 2
    /\ s.mch.arch_irqs = 2
    /\ Len(s.wired) >= 4
    /\ s.wired[4].to = [kind |-> "cpu", id |-> 1, line |-> 1]


(***************************************************************************)
(* Line indices and the sizing assertion (C26, C27).                       *)
(***************************************************************************)
\* C26: when every consumer holds the cell its controller reads, the
\* connection loop only selects line handles that were allocated: it reads
\* no handle beyond the array and the build does not stop in it.
C26_LineIndexBelowAllocation ==
    (StageDone("sized") /\ AllReadable(cur, LineCell(cur)))
        => /\ s.halt = ""
           /\ \A i \in 1..Len(s.wired) :
                 /\ s.wired[i].to.kind = "dev"
                 /\ s.wired[i].to.line < s.dev_map[1].irqs

\* C27: when every consumer holds the cell its controller reads, the
\* assertion cnt <= num_irqs of the sizing holds.
C27_SizingAssertionHolds ==
    (~StageDone("sized") /\ AllReadable(cur, LineCell(cur)))
        => s.halt = ""


(***************************************************************************)
(* The clock count (C29).                                                  *)
(***************************************************************************)
\* C29: from the end of mch_fdt_init_clocks on, num_clocks is the number of
\* nodes with #clock-cells and the length of the clock array and of the
\* node-to-clock index.
C29_ClockCountIsAllocation ==
    StageDone("clocks")
        => /\ s.num_clocks = Len(NodesWithProp(fdt, "#clock-cells"))
           /\ s.num_clocks = Len(s.clocks)
           /\ s.num_clocks = Len(s.clock_node_map)

=============================================================================
